---------------------------- MODULE Spec2Model ----------------------------
(***************************************************************************)
(* A model of lonelypsp's HMAC authentication core                         *)
(* (src/src/lonelypsp/auth/helpers/hmac_auth_config.py): the persistent    *)
(* replay store and its background reaper, the reentrant wrapper, token    *)
(* extraction and the canonical to-sign encodings.                         *)
(*                                                                         *)
(* Time is counted in ticks of 1/TicksPerSec second, so that the fraction  *)
(* of time.time() that int(), math.ceil() and math.floor() drop is there.  *)
(***************************************************************************)
EXTENDS Integers, Sequences, FiniteSets, TLC

VARIABLES
    clock,            \* time.time(), in ticks
    table,            \* httppubsub_hmacs: code -> expires_at (whole seconds)
    conn,             \* IncomingHmacAuthSqliteDBConfig.conn
    cursor,           \* IncomingHmacAuthSqliteDBConfig.cursor
    background_task,  \* IncomingHmacAuthSqliteDBConfig.background_task
    cleanup_wakeup,   \* the asyncio.Event: TRUE when set
    reaper,           \* the _cleanup_codes task: where it is suspended
    td,               \* a teardown_hmac_auth_db call suspended in cancel_and_check
    call,             \* what the step just taken returned (NoCall otherwise)
    hist,             \* per code: bookkeeping about its last "ok"
    issued,           \* the token an authorize_<op> call produced
    accepts,          \* how often is_<op>_allowed said "ok" to it
    input,            \* the arguments of the call under study
    depth,            \* reentrant wrapper: the nesting depth
    lock,             \* reentrant wrapper: the task that holds the lock
    waiters,          \* the tasks waiting for the lock, first come first
    wpc,              \* where each task is in its call of the wrapper
    forwarded,        \* the last call the wrapper passed to its delegate
    calls,            \* how many calls of the wrapper were begun
    parser_lookup,    \* _s2b_parser_lookup / _b2s_parser_lookup of ws/parser.py
    frame,            \* the websocket message a serializer returned
    txn               \* a transaction is open on the store's connection

storeVars == <<clock, table, conn, cursor, background_task, cleanup_wakeup,
               reaper, td, call, hist>>
authVars == <<issued, accepts>>
tokenVars == <<input>>
wrapVars == <<depth, lock, waiters, wpc, forwarded, calls>>
wireVars == <<parser_lookup, frame>>
sqlVars == <<txn>>
nonStoreVars == <<authVars, tokenVars, wrapVars, wireVars, sqlVars>>

vars == <<storeVars, authVars, tokenVars, wrapVars, wireVars, sqlVars>>

-----------------------------------------------------------------------------
(* Bounds of the model and configuration values                            *)

TicksPerSec == 2
MaxClock == 11
\* IncomingHmacAuthSqliteDBConfig(token_lifetime=..., cleanup_batch_delay=...)
token_lifetime == 2
cleanup_batch_delay == 2

\* len(code) that get_token requires: the size of a sha512 digest
CodeLen == 64

\* hmac.new(secret, to_sign, "sha512").digest(): a digest is named by what
\* was signed and with which secret (no two inputs share a digest).
Hmac(secret, to_sign) == [secret |-> secret, msg |-> to_sign]

\* the base64 data characters of a digest, as one atom of a str
B64Run(d) == [k |-> "b64", v |-> d]

\* the bytes of a digest, as b64decode gives them
DigestBytes(d) == [ok |-> TRUE, len |-> CodeLen, data |-> <<B64Run(d)>>]

\* the codes given to mark_code_used directly
Codes == {DigestBytes(Hmac("other", <<c>>)) : c \in 1..2}

None == "None"
Never == 0 - 1

\* seconds -> ticks
Ticks(s) == s * TicksPerSec
\* math.floor and math.ceil of a time given in ticks, in whole seconds
Floor(t) == t \div TicksPerSec
Ceil(t) == -((-t) \div TicksPerSec)
\* int(x): truncation toward zero
Trunc(t) == IF t >= 0 THEN Floor(t) ELSE Ceil(t)
Max(a, b) == IF a >= b THEN a ELSE b
Abs(x) == IF x >= 0 THEN x ELSE -x

-----------------------------------------------------------------------------
(* The persistent replay store                                             *)

NoCall == [op |-> "none"]

\* The reaper is alive and suspended (or created and not yet run).
ReaperAlive == reaper.pc \in {"start", "wait", "sleep"}

\* The event loop would run the reaper now.
ReaperDue ==
    \/ reaper.pc = "start"
    \/ reaper.pc = "wait" /\ cleanup_wakeup
    \/ reaper.pc = "sleep" /\ clock >= reaper.wake_at

NoReaper == [pc |-> "none", wake_at |-> 0]

InitStore ==
    /\ clock = 0
    /\ table = << >>
    /\ conn = None
    /\ cursor = None
    /\ background_task = None
    /\ cleanup_wakeup = FALSE
    /\ reaper = NoReaper
    /\ td = [pc |-> "idle", task |-> "none"]
    /\ call = NoCall
    /\ hist = [c \in Codes |-> [ok_at |-> Never, ok_count |-> 0, steady |-> FALSE,
                            swept |-> FALSE]]

NoToken == [op |-> "none"]
NoInput == [kind |-> "none"]
IdleAuth == issued = NoToken /\ accepts = 0
IdleToken == input = NoInput
Tasks == {"t1", "t2"}
NotImported == [state |-> "not imported"]
NoFrame == [some |-> FALSE]
IdleWire == parser_lookup = NotImported /\ frame = NoFrame
IdleSql == txn = FALSE
IdleWrapper ==
    /\ depth = 0
    /\ lock = None
    /\ waiters = << >>
    /\ wpc = [t \in Tasks |-> "idle"]
    /\ forwarded = "none"
    /\ calls = 0

\* Time passes.  A tick taken while the reaper is due is a late wake-up of
\* the reaper: no code's history is "steady" after it.
Tick ==
    /\ clock < MaxClock
    /\ clock' = clock + 1
    /\ hist' = IF ReaperDue
               THEN [c \in DOMAIN hist |-> [hist[c] EXCEPT !.steady = FALSE]]
               ELSE hist
    /\ call' = NoCall
    /\ UNCHANGED <<table, conn, cursor, background_task, cleanup_wakeup, reaper, td>>
    /\ UNCHANGED nonStoreVars

\* setup_hmac_auth_db: the assertion, the connection, CREATE TABLE IF NOT
\* EXISTS (the table of the database file is kept), create_task.
setup_result == IF background_task # None THEN "AssertionError" ELSE "returned"
setup_hmac_auth_db_Store ==
    IF setup_result = "AssertionError"
    THEN UNCHANGED <<conn, cursor, background_task, reaper>>
    ELSE /\ conn' = "open"
         /\ cursor' = "open"
         /\ background_task' = "task"
         /\ reaper' = [pc |-> "start", wake_at |-> 0]

Setup ==
    /\ setup_hmac_auth_db_Store
    /\ call' = [op |-> "setup", result |-> setup_result]
    /\ UNCHANGED <<clock, table, cleanup_wakeup, td, hist>>
    /\ UNCHANGED nonStoreVars


\* Python values of the reaper's pass: cursor.fetchone() gives None or a row,
\* which is a tuple of the selected columns.
PyInt(n) == [type |-> "int", value |-> n]
PyTuple(items) == [type |-> "tuple", items |-> items]
PyNone == [type |-> "None"]

\* a - b for b a float (in ticks): defined for numbers only.
PySub(a, b) == IF a.type = "int" THEN PyInt(Ticks(a.value) - b)
               ELSE [type |-> "TypeError"]

MinOf(S) == CHOOSE m \in S : \A x \in S : m <= x

\* an INSERT that replaces the row of a code that is there
InsertRowCountOne(t, code) == 1

\* "INSERT ... SELECT ?, ? WHERE NOT EXISTS (SELECT 1 ... WHERE code = ?)":
\* cursor.rowcount after it (the number of rows inserted), and the table
\* after the statement.
InsertRowCount(t, code) == IF code \in DOMAIN t THEN 0 ELSE 1

InsertIfAbsent(t, code, expires_at) ==
    IF InsertRowCount(t, code) = 0 THEN t
    ELSE [c \in DOMAIN t \cup {code} |-> IF c = code THEN expires_at ELSE t[c]]

\* a DELETE that also takes the rows with expires_at = floor(now)
DeleteExpiredAt(t, now) ==
    [c \in {x \in DOMAIN t : ~(t[x] <= Floor(now))} |-> t[c]]

\* a DELETE that compares the time of the insertion, not the expiry
DeleteExpiredSinceInsert(t, now) ==
    [c \in {x \in DOMAIN t : ~(t[x] - token_lifetime < Floor(now))} |-> t[c]]

\* "DELETE FROM httppubsub_hmacs WHERE expires_at < ?" with floor(now).
DeleteExpired(t, now) ==
    [c \in {x \in DOMAIN t : ~(t[x] < Floor(now))} |-> t[c]]

\* "SELECT expires_at ... ORDER BY expires_at ASC LIMIT 1"; fetchone().
FetchEarliest(t) ==
    IF DOMAIN t = {} THEN PyNone
    ELSE PyTuple(<<MinOf({t[c] : c \in DOMAIN t})>>)

\* what mark_code_used(code) returns (or the assertion it fails)
mark_result(code) ==
    IF conn = None \/ cursor = None THEN "AssertionError"
    ELSE IF InsertRowCount(table, code) = 0 THEN "conflict" ELSE "ok"

HistOf(code) ==
    IF code \in DOMAIN hist THEN hist[code]
    ELSE [ok_at |-> Never, ok_count |-> 0, steady |-> FALSE, swept |-> FALSE]

\* a mark_code_used that does not touch the event
wakeup_after_insert_never(is_conflict, event) == event

\* "if not is_conflict: self.cleanup_wakeup.set()": the event afterwards
wakeup_after_insert(is_conflict, event) == IF is_conflict THEN event ELSE TRUE

\* mark_code_used(code): no await inside, so the whole call is one step.
mark_code_used(code) ==
    IF mark_result(code) = "AssertionError"
    THEN UNCHANGED <<table, cleanup_wakeup, hist>>
    ELSE LET expires_at == Ceil(clock + Ticks(token_lifetime))
             is_conflict == (InsertRowCount(table, code) = 0)
         IN /\ table' = InsertIfAbsent(table, code, expires_at)
            /\ cleanup_wakeup' = wakeup_after_insert(is_conflict, cleanup_wakeup)
            /\ hist' = IF is_conflict \/ code \notin DOMAIN hist THEN hist
                       ELSE [hist EXCEPT ![code] =
                               [ok_at |-> clock,
                                ok_count |-> hist[code].ok_count + 1,
                                steady |-> TRUE, swept |-> FALSE]]

MarkCodeUsed ==
    /\ \E code \in Codes :
          /\ mark_code_used(code)
          /\ call' = [op |-> "mark_code_used", code |-> code, at |-> clock,
                      result |-> mark_result(code),
                      prev |-> HistOf(code).ok_at,
                      steady |-> HistOf(code).steady /\ ~ReaperDue]
    /\ UNCHANGED <<clock, conn, cursor, background_task, reaper, td>>
    /\ UNCHANGED nonStoreVars

\* One pass of _cleanup_codes' loop, up to its next suspension point (or to
\* the exception that ends the task).
cleanup_codes_pass ==
    LET now == clock
        kept == DeleteExpired(table, now)
        next_expires_at == FetchEarliest(kept)
        delay == PySub(next_expires_at, now)
    IN /\ table' = kept
       /\ hist' = [c \in DOMAIN hist |->
                     IF c \notin DOMAIN table THEN hist[c]
                     ELSE IF c \notin DOMAIN kept
                     THEN [hist[c] EXCEPT !.ok_count = 0]
                     ELSE [hist[c] EXCEPT !.swept = TRUE]]
       /\ IF next_expires_at.type = "None"
          THEN \* clear(); await wait()
               /\ cleanup_wakeup' = FALSE
               /\ reaper' = [pc |-> "wait", wake_at |-> 0]
          ELSE /\ cleanup_wakeup' = cleanup_wakeup
               /\ IF delay.type = "int"
                  THEN \* await asyncio.sleep(max(..., cleanup_batch_delay))
                       reaper' = [pc |-> "sleep",
                                  wake_at |-> now + Max(delay.value,
                                                 Ticks(cleanup_batch_delay))]
                  ELSE reaper' = [pc |-> "failed", wake_at |-> 0]

\* The task starts: the first pass.
ReaperStart ==
    /\ reaper.pc = "start"
    /\ cleanup_codes_pass
    /\ call' = NoCall
    /\ UNCHANGED <<clock, conn, cursor, background_task, td>>
    /\ UNCHANGED nonStoreVars

\* wait() returns; asyncio.sleep(token_lifetime + cleanup_batch_delay) begins.
ReaperWake ==
    /\ reaper.pc = "wait"
    /\ cleanup_wakeup
    /\ reaper' = [pc |-> "sleep",
                  wake_at |-> clock + Ticks(token_lifetime + cleanup_batch_delay)]
    /\ call' = NoCall
    /\ UNCHANGED <<clock, table, conn, cursor, background_task, cleanup_wakeup,
                   td, hist>>
    /\ UNCHANGED nonStoreVars

\* asyncio.sleep returns: the next pass.
ReaperSleepDone ==
    /\ reaper.pc = "sleep"
    /\ clock >= reaper.wake_at
    /\ cleanup_codes_pass
    /\ call' = NoCall
    /\ UNCHANGED <<clock, conn, cursor, background_task, td>>
    /\ UNCHANGED nonStoreVars

\* teardown_hmac_auth_db up to "await cancel_and_check(task)": the fields are
\* cleared and the task, if any, is cancelled where it is suspended.
teardown_hmac_auth_db_Store ==
    /\ conn' = None
    /\ cursor' = None
    /\ background_task' = None
    /\ IF background_task = None
       THEN UNCHANGED <<reaper, td>>
       ELSE /\ reaper' = IF ReaperAlive
                         THEN [pc |-> "cancelled", wake_at |-> 0]
                         ELSE reaper
            /\ td' = [pc |-> "awaiting", task |-> reaper.pc,
                      conn |-> conn, cursor |-> cursor]
    /\ hist' = [c \in DOMAIN hist |-> [hist[c] EXCEPT !.steady = FALSE]]

\* what cursor.close() / conn.close() may do
CloseResults == {"closed", "raised"}

\* a teardown whose finally blocks are plain statements after the await
teardown_closes_in_sequence(held, cancel_result, cursor_close, conn_close) ==
    IF cancel_result = "raised" THEN << >>
    ELSE IF held.cursor # None /\ cursor_close = "raised"
    THEN <<[call |-> "cursor.close", result |-> cursor_close]>>
    ELSE (IF held.cursor # None
          THEN <<[call |-> "cursor.close", result |-> cursor_close]>> ELSE << >>)
         \o (IF held.conn # None
             THEN <<[call |-> "conn.close", result |-> conn_close]>> ELSE << >>)

\* the close calls of teardown's finally blocks, in the order they are made,
\* on the cursor and the connection the call took from the fields
teardown_closes(held, cancel_result, cursor_close, conn_close) ==
    (IF held.cursor # None
     THEN <<[call |-> "cursor.close", result |-> cursor_close]>> ELSE << >>)
    \o (IF held.conn # None
        THEN <<[call |-> "conn.close", result |-> conn_close]>> ELSE << >>)

\* the end of teardown_hmac_auth_db: it raises when a step of it raised
teardown_end(held, cancel_result, cursor_close, conn_close) ==
    LET closed == teardown_closes(held, cancel_result, cursor_close, conn_close)
    IN [op |-> "teardown",
        result |-> IF \/ cancel_result = "raised"
                      \/ \E i \in 1..Len(closed) : closed[i].result = "raised"
                   THEN "raised" ELSE "returned",
        cancel |-> cancel_result,
        held |-> held,
        closed |-> closed]

TeardownBegin ==
    /\ td.pc = "idle"
    /\ teardown_hmac_auth_db_Store
    /\ IF background_task = None
       THEN \E cursor_close \in CloseResults : \E conn_close \in CloseResults :
               call' = teardown_end([conn |-> conn, cursor |-> cursor], "none",
                                    cursor_close, conn_close)
       ELSE call' = NoCall
    /\ UNCHANGED <<clock, table, cleanup_wakeup>>
    /\ UNCHANGED nonStoreVars

\* what "await cancel_and_check(task)" may do in teardown: return, or raise
\* when the task had ended with an exception of its own
teardown_results == IF td.task = "failed" THEN {"returned", "raised"}
                    ELSE {"returned"}

\* cancel_and_check returns or raises; the cursor and the connection of the
\* call are closed either way.
TeardownFinish ==
    /\ td.pc = "awaiting"
    /\ td' = [pc |-> "idle", task |-> "none"]
    /\ \E result \in teardown_results :
       \E cursor_close \in CloseResults : \E conn_close \in CloseResults :
          call' = teardown_end([conn |-> td.conn, cursor |-> td.cursor], result,
                               cursor_close, conn_close)
    /\ UNCHANGED <<clock, table, conn, cursor, background_task, cleanup_wakeup,
                   reaper, hist>>
    /\ UNCHANGED nonStoreVars

NextStore ==
    \/ Tick
    \/ Setup
    \/ MarkCodeUsed
    \/ ReaperStart
    \/ ReaperWake
    \/ ReaperSleepDone
    \/ TeardownBegin
    \/ TeardownFinish

InitStoreOnly ==
    InitStore /\ IdleAuth /\ IdleToken /\ IdleWrapper /\ IdleWire /\ IdleSql

SpecStore == InitStoreOnly /\ [][NextStore]_vars

-----------------------------------------------------------------------------
(* Claims about the persistent store, checked under SpecStore              *)

IsMark == call.op = "mark_code_used"
Returned == IsMark /\ call.result \in {"ok", "conflict"}

\* C1: once mark_code_used(c) has returned "ok" at time t, a later
\* mark_code_used(c) issued at a time <= t + token_lifetime never returns
\* "ok": it returns "conflict" (or, with the store torn down, fails its
\* "not entered" assertion), whatever passes the reaper ran in between.
C1_ConflictWithinLifetime ==
    (IsMark /\ call.prev # Never
            /\ call.at <= call.prev + Ticks(token_lifetime))
        => /\ call.result # "ok"
           /\ (conn # None => call.result = "conflict")

\* the boundary: a conflict exactly token_lifetime after the "ok", with a
\* reaper pass over the row in between
C1_Witness ==
    /\ IsMark /\ call.result = "conflict"
    /\ call.prev # Never
    /\ call.at = call.prev + Ticks(token_lifetime)
    /\ hist[call.code].swept

\* C3: while c remains in the table exactly one mark_code_used(c) has
\* returned "ok" for it; every other call on c returns "conflict".
C3_AtomicInsertion ==
    /\ \A c \in Codes : /\ hist[c].ok_count <= 1
                        /\ (c \in DOMAIN table <=> hist[c].ok_count = 1)
    /\ (Returned /\ call.prev = call.at => call.result = "conflict")

\* two calls on the same code at the same instant: the second conflicts
C3_Witness ==
    /\ Returned /\ call.result = "conflict" /\ call.prev = call.at
    /\ hist[call.code].ok_count = 1

\* C4 (as claimed): on a store that stayed set up, with a reaper that was
\* never late, a mark_code_used(c) issued token_lifetime +
\* cleanup_batch_delay or more after the "ok" of c returns "ok" again.
C4_ReacceptedAfterExpiry ==
    (Returned /\ call.prev # Never /\ call.steady
              /\ call.at >= call.prev + Ticks(token_lifetime + cleanup_batch_delay))
        => call.result = "ok"

\* the reaper's pass took the row of c out of the table in this step
Removed(c) == c \in DOMAIN table /\ c \notin DOMAIN table'

\* C19: a row holds expires_at = ceil(insert time + token_lifetime), the
\* reaper removes it only in a pass with expires_at < floor(now), and so no
\* code leaves the table less than token_lifetime seconds after the
\* mark_code_used call that inserted it.
C19_ExpiryNeverEarly ==
    [][/\ \A c \in DOMAIN table' :
             table'[c] = Ceil(hist'[c].ok_at + Ticks(token_lifetime))
       /\ \A c \in Codes :
             Removed(c) => /\ reaper.pc \in {"start", "sleep"}
                           /\ table[c] < Floor(clock)
                           /\ clock >= hist[c].ok_at + Ticks(token_lifetime)]_vars

\* a code removed by a pass at the earliest instant a pass can remove it: the
\* first whole second after its expires_at
C19_Witness ==
    \E c \in Codes :
        /\ hist[c].ok_at # Never /\ hist[c].ok_count = 0
        /\ c \notin DOMAIN table
        /\ call = NoCall /\ reaper.pc = "wait"
        /\ clock = hist[c].ok_at + Ticks(token_lifetime + 1)

\* the step is a pass of the reaper's loop: the task ran from its start or
\* from the end of a sleep
ReaperPassed ==
    /\ reaper.pc \in {"start", "sleep"}
    /\ reaper' # reaper
    /\ reaper'.pc # "cancelled"

\* C20: on a store that is set up the reaper task has not ended; a wait for
\* the wake event is followed by a sleep of token_lifetime +
\* cleanup_batch_delay; a pass that finds the table empty waits for the wake
\* event, and a pass that leaves a row sleeps max(earliest expires_at - now,
\* cleanup_batch_delay) before the next pass.
C20_ReaperContinuity ==
    [][/\ (conn' # None /\ background_task' # None) => ReaperAlive'
       /\ (reaper.pc = "wait" /\ reaper'.pc = "sleep") =>
              reaper'.wake_at = clock + Ticks(token_lifetime + cleanup_batch_delay)
       /\ (ReaperPassed /\ table' = << >>) => reaper'.pc = "wait"
       /\ (ReaperPassed /\ table' # << >>) =>
              /\ reaper'.pc = "sleep"
              /\ reaper'.wake_at =
                    clock + Max(Ticks(MinOf({table'[c] : c \in DOMAIN table'})) - clock,
                                Ticks(cleanup_batch_delay))]_vars

\* the step is the start of a teardown_hmac_auth_db call
TeardownBegan == td.pc = "idle" /\ (td'.pc = "awaiting" \/ call'.op = "teardown")
\* the step is the end of a teardown_hmac_auth_db call, which returns or raises
TeardownEnded ==
    /\ call'.op = "teardown"
    /\ td.pc = "awaiting" \/ TeardownBegan

\* C23: teardown cancels the reaper task first, then closes the cursor, then
\* the connection; the cursor and the connection are closed when cancelling
\* or awaiting the task failed, and the connection is closed when closing
\* the cursor failed; teardown leaves no task, cursor or connection in the
\* store's fields.
C23_TeardownOrder ==
    [][/\ TeardownBegan =>
             /\ background_task' = None /\ cursor' = None /\ conn' = None
             /\ ~ReaperAlive'
       /\ (td.pc = "awaiting" /\ td'.pc = "idle") =>
             /\ UNCHANGED <<background_task, cursor, conn>>
             /\ call'.held = [conn |-> td.conn, cursor |-> td.cursor]
       /\ TeardownEnded =>
             [i \in 1..Len(call'.closed) |-> call'.closed[i].call]
                 = (IF call'.held.cursor # None THEN <<"cursor.close">> ELSE << >>)
                   \o (IF call'.held.conn # None THEN <<"conn.close">> ELSE << >>)]_vars

\* cancel_and_check raised and cursor.close() raised, and the connection was
\* closed all the same
C23_Witness ==
    /\ call.op = "teardown" /\ call.result = "raised"
    /\ call.cancel = "raised"
    /\ call.closed = <<[call |-> "cursor.close", result |-> "raised"],
                       [call |-> "conn.close", result |-> "closed"]>>
    /\ background_task = None /\ cursor = None /\ conn = None

\* the event loop runs a task that is ready: a reaper whose wait on the
\* event can return does return
SpecWake == InitStoreOnly /\ [][NextStore]_vars /\ WF_vars(ReaperWake)

\* C25: mark_code_used sets the wake event when it returns "ok" and leaves it
\* alone when it returns "conflict", and nothing else sets it; a reaper that
\* waits on the event while the table holds a row finds the event set, and
\* its wait returns.
C25_WakeEvent ==
    /\ [][/\ call'.op = "mark_code_used" =>
                (cleanup_wakeup' = (call'.result = "ok" \/ cleanup_wakeup))
          /\ (~cleanup_wakeup /\ cleanup_wakeup') =>
                (call'.op = "mark_code_used" /\ call'.result = "ok")]_vars
    /\ [](reaper.pc = "wait" /\ table # << >> => cleanup_wakeup)
    /\ ((reaper.pc = "wait" /\ table # << >>) ~> reaper.pc # "wait")

\* the reaper found the table empty and waits; a code was inserted afterwards
C25_Witness ==
    /\ reaper.pc = "wait" /\ cleanup_wakeup
    /\ call.op = "mark_code_used" /\ call.result = "ok"
    /\ DOMAIN table = {call.code}

-----------------------------------------------------------------------------
(* The persistent store with statements that fail                          *)
(*                                                                         *)
(* cursor.execute raises sqlite3.Error when sqlite refuses a statement     *)
(* (the database is locked by another process, the disk is full, ...).    *)
(* A BEGIN inside a transaction is refused.  After a statement of a       *)
(* transaction failed, sqlite has ended the transaction itself or not;    *)
(* ROLLBACK ends one that is open and is refused when none is.            *)

Stmt(sql, result) == [stmt |-> sql, result |-> result]

\* an except clause that re-raises without a ROLLBACK
except_reraise(open) == [sql |-> << >>, txn |-> open]

\* "except BaseException: cursor.execute("ROLLBACK"); raise"
except_rollback(open) ==
    [sql |-> <<Stmt("ROLLBACK", IF open THEN "ok" ELSE "raised")>>, txn |-> FALSE]

\* cursor.execute("BEGIN IMMEDIATE TRANSACTION"), then the statements of the
\* try block, body, the last of which is COMMIT.  fails is the place of the
\* statement that raises (1 for BEGIN, 0 for none); open says whether a
\* transaction was open before.
run_transaction(body, fails, auto_rollback, open) ==
    IF open \/ fails = 1
    THEN [sql |-> <<Stmt("BEGIN", "raised")>>, txn |-> open, raised |-> TRUE]
    ELSE IF fails \in 2..(Len(body) + 1)
    THEN LET handler == except_rollback(~auto_rollback)
         IN [sql |-> <<Stmt("BEGIN", "ok")>>
                       \o [i \in 1..(fails - 2) |-> Stmt(body[i], "ok")]
                       \o <<Stmt(body[fails - 1], "raised")>>
                       \o handler.sql,
             txn |-> handler.txn,
             raised |-> TRUE]
    ELSE [sql |-> <<Stmt("BEGIN", "ok")>>
                    \o [i \in 1..Len(body) |-> Stmt(body[i], "ok")],
          txn |-> FALSE,
          raised |-> FALSE]

\* the statements of the try blocks of mark_code_used and _cleanup_codes
MarkStatements == <<"INSERT", "COMMIT">>
CleanupStatements == <<"DELETE", "SELECT", "COMMIT">>

\* whether sqlite ended the transaction when the statement failed: a choice
\* only for a statement inside the transaction
AutoRollbacks(fails) == IF fails >= 2 THEN BOOLEAN ELSE {FALSE}

\* mark_code_used(code) with statements that may fail
MarkCodeUsedTxn ==
    /\ \E code \in Codes :
          IF mark_result(code) = "AssertionError"
          THEN /\ mark_code_used(code)
               /\ call' = [op |-> "mark_code_used", result |-> "AssertionError",
                           sql |-> << >>]
               /\ txn' = txn
          ELSE \E fails \in 0..(Len(MarkStatements) + 1) :
               \E auto_rollback \in AutoRollbacks(fails) :
               \E t \in {run_transaction(MarkStatements, fails, auto_rollback, txn)} :
                  /\ IF t.raised THEN UNCHANGED <<table, cleanup_wakeup, hist>>
                     ELSE mark_code_used(code)
                  /\ call' = [op |-> "mark_code_used",
                              result |-> IF t.raised THEN "sqlite3.Error"
                                         ELSE mark_result(code),
                              sql |-> t.sql]
                  /\ txn' = t.txn
    /\ UNCHANGED <<clock, conn, cursor, background_task, reaper, td>>
    /\ UNCHANGED <<authVars, tokenVars, wrapVars, wireVars>>

\* one pass of _cleanup_codes with statements that may fail: an exception
\* ends the task
cleanup_codes_pass_txn ==
    \E fails \in 0..(Len(CleanupStatements) + 1) :
    \E auto_rollback \in AutoRollbacks(fails) :
    \E t \in {run_transaction(CleanupStatements, fails, auto_rollback, txn)} :
       /\ IF t.raised
          THEN /\ reaper' = [pc |-> "failed", wake_at |-> 0]
               /\ UNCHANGED <<table, cleanup_wakeup, hist>>
          ELSE cleanup_codes_pass
       /\ call' = [op |-> "cleanup", sql |-> t.sql]
       /\ txn' = t.txn

ReaperStartTxn ==
    /\ reaper.pc = "start"
    /\ cleanup_codes_pass_txn
    /\ UNCHANGED <<clock, conn, cursor, background_task, td>>
    /\ UNCHANGED <<authVars, tokenVars, wrapVars, wireVars>>

ReaperSleepDoneTxn ==
    /\ reaper.pc = "sleep"
    /\ clock >= reaper.wake_at
    /\ cleanup_codes_pass_txn
    /\ UNCHANGED <<clock, conn, cursor, background_task, td>>
    /\ UNCHANGED <<authVars, tokenVars, wrapVars, wireVars>>

NextTxn ==
    \/ Tick
    \/ Setup
    \/ MarkCodeUsedTxn
    \/ ReaperStartTxn
    \/ ReaperWake
    \/ ReaperSleepDoneTxn
    \/ TeardownBegin
    \/ TeardownFinish

SpecTxn == InitStoreOnly /\ [][NextTxn]_vars

\* the statements of the step just taken
Statements == IF "sql" \in DOMAIN call THEN call.sql ELSE << >>

\* a statement other than BEGIN raised and the next statement is not ROLLBACK
Unhandled ==
    \E i \in 1..Len(Statements) :
        /\ Statements[i].result = "raised"
        /\ Statements[i].stmt \notin {"BEGIN", "ROLLBACK"}
        /\ ~(i < Len(Statements) /\ Statements[i + 1].stmt = "ROLLBACK")

\* C24: no transaction is open when a call of the store has returned or
\* raised and when the reaper is suspended or has ended; no BEGIN succeeds
\* inside a transaction; a statement that fails inside a transaction is
\* followed by ROLLBACK before the exception leaves the method; teardown
\* closes no connection with a transaction in progress.
C24_TransactionDiscipline ==
    /\ ~txn
    /\ ~Unhandled
    /\ \A i \in 2..Len(Statements) : Statements[i] # Stmt("BEGIN", "ok")
    /\ (call.op = "teardown" /\ call.closed # << >> => ~txn)

\* INSERT failed and left the transaction open; ROLLBACK ended it before the
\* exception left mark_code_used
C24_Witness ==
    /\ call.op = "mark_code_used" /\ call.result = "sqlite3.Error"
    /\ call.sql = <<Stmt("BEGIN", "ok"), Stmt("INSERT", "raised"), Stmt("ROLLBACK", "ok")>>
    /\ reaper.pc = "wait"
    /\ ~txn

-----------------------------------------------------------------------------
(* Bytes and strings                                                       *)
(*                                                                         *)
(* bytes are sequences of 0..255.  A str is a sequence of atoms: a         *)
(* character [k |-> "ch", v |-> c], or one of two runs of characters that  *)
(* are too long to spell out: [k |-> "b64", v |-> d], the base64 data      *)
(* characters (no padding) of the byte string d, and                       *)
(* [k |-> "digits", v |-> n], n decimal digits '9'.  A third run,          *)
(* [k |-> "run", v |-> c, n |-> n], is n times the ASCII character c.      *)

Ch(c) == [k |-> "ch", v |-> c]
DigitRun(n) == [k |-> "digits", v |-> n]
CharRun(c, n) == [k |-> "run", v |-> c, n |-> n]
IsCh(a, c) == a.k = "ch" /\ a.v = c

RECURSIVE Str(_)
\* the str of a sequence of characters
Str(cs) == IF cs = << >> THEN << >> ELSE <<Ch(Head(cs))>> \o Str(Tail(cs))

RECURSIVE Concat(_)
Concat(parts) == IF parts = << >> THEN << >> ELSE Head(parts) \o Concat(Tail(parts))

\* Optional[str]
NoneStr == [some |-> FALSE]
Some(s) == [some |-> TRUE, v |-> s]

\* code points of the characters the model uses; "e'" stands for U+00E9
CodePoint(c) ==
    CASE c = "a" -> 97
      [] c = "n" -> 110
      [] c = "m" -> 109
      [] c = "u" -> 117
      [] c = "t" -> 116
      [] c = "e'" -> 233
      [] c = ":" -> 58
      [] OTHER -> 63

\* str.encode("utf-8") of one character (code points below U+0800)
Utf8Char(c) ==
    LET cp == CodePoint(c)
    IN IF cp < 128 THEN <<cp>>
       ELSE <<192 + (cp \div 64), 128 + (cp % 64)>>

\* str.encode("utf-8") of one atom of a str
Utf8Atom(a) ==
    IF a.k = "run" THEN [i \in 1..a.n |-> CodePoint(a.v)] ELSE Utf8Char(a.v)

RECURSIVE Utf8(_)
\* str.encode("utf-8")
Utf8(s) == IF s = << >> THEN << >> ELSE Utf8Atom(Head(s)) \o Utf8(Tail(s))

\* int.to_bytes(width, "big"): unsigned, so a negative number and a number
\* of more than width bytes raise OverflowError.  (The integers of the model
\* are below 2^31.)
ByteAt(n, e) == IF e >= 4 THEN 0 ELSE (n \div (256 ^ e)) % 256
Fits(n, width) == n >= 0 /\ (width >= 4 \/ n < 256 ^ width)
ToBytes(n, width) ==
    IF Fits(n, width)
    THEN [ok |-> TRUE, bytes |-> [i \in 1..width |-> ByteAt(n, width - i)]]
    ELSE [ok |-> FALSE, bytes |-> << >>]
Raw(b) == [ok |-> TRUE, bytes |-> b]

\* b"".join(parts), or the OverflowError of the first part that raised
Join(parts) ==
    IF \A i \in 1..Len(parts) : parts[i].ok
    THEN [ok |-> TRUE, bytes |-> Concat([i \in 1..Len(parts) |-> parts[i].bytes])]
    ELSE [ok |-> FALSE, error |-> "OverflowError"]

-----------------------------------------------------------------------------
(* AuthMessageType and the canonical to-sign encodings                     *)

SUBSCRIBE_EXACT == 1
SUBSCRIBE_GLOB == 2
NOTIFY == 3
WEBSOCKET_CONFIGURE == 4
CHECK_SUBSCRIPTIONS == 5
SET_SUBSCRIPTIONS == 6
RECEIVE == 7
MISSED == 8
WEBSOCKET_CONFIRM_CONFIGURE == 9

Ops == {"subscribe_exact", "subscribe_glob", "notify", "stateful_configure",
        "check_subscriptions", "set_subscriptions", "receive", "missed",
        "stateful_confirm_configure"}

\* len(message_sha512), asserted by _prepare_receive and is_notify_allowed
Sha512Len == 64

\* timestamp, then the nonce with its 1-byte length
Prefix(tag, timestamp, nonce) ==
    <<ToBytes(tag, 1), ToBytes(timestamp, 8),
      ToBytes(Len(Utf8(nonce)), 1), Raw(Utf8(nonce))>>

\* a field with its 2-byte length
Len16(b) == <<ToBytes(Len(b), 2), Raw(b)>>
EncodedRecovery(recovery) == IF recovery.some THEN Utf8(recovery.v) ELSE << >>

\* an encoding that leaves the topic out
prepare_subscribe_exact_unbound(url, recovery, exact, timestamp, nonce) ==
    Join(Prefix(SUBSCRIBE_EXACT, timestamp, nonce)
         \o Len16(Utf8(url)) \o Len16(EncodedRecovery(recovery)))

prepare_subscribe_exact(url, recovery, exact, timestamp, nonce) ==
    Join(Prefix(SUBSCRIBE_EXACT, timestamp, nonce)
         \o Len16(Utf8(url)) \o Len16(EncodedRecovery(recovery)) \o Len16(exact))

\* an encoding of a glob subscription under the tag of an exact one
prepare_subscribe_glob_as_exact(url, recovery, glob, timestamp, nonce) ==
    Join(Prefix(SUBSCRIBE_EXACT, timestamp, nonce)
         \o Len16(Utf8(url)) \o Len16(EncodedRecovery(recovery))
         \o Len16(Utf8(glob)))

prepare_subscribe_glob(url, recovery, glob, timestamp, nonce) ==
    Join(Prefix(SUBSCRIBE_GLOB, timestamp, nonce)
         \o Len16(Utf8(url)) \o Len16(EncodedRecovery(recovery))
         \o Len16(Utf8(glob)))

prepare_notify(topic, message_sha512, timestamp, nonce) ==
    Join(Prefix(NOTIFY, timestamp, nonce)
         \o Len16(topic) \o <<Raw(message_sha512)>>)

prepare_stateful_configure(subscriber_nonce, enable_zstd, enable_training, initial_dict, timestamp, nonce) ==
    Join(Prefix(WEBSOCKET_CONFIGURE, timestamp, nonce)
         \o <<ToBytes(Len(subscriber_nonce), 1), Raw(subscriber_nonce),
              Raw(IF enable_zstd THEN <<1>> ELSE <<0>>),
              Raw(IF enable_training THEN <<1>> ELSE <<0>>),
              ToBytes(initial_dict, 2)>>)

prepare_check_subscriptions(url, timestamp, nonce) ==
    Join(Prefix(CHECK_SUBSCRIPTIONS, timestamp, nonce) \o Len16(Utf8(url)))

prepare_set_subscriptions(url, strong_etag, timestamp, nonce) ==
    Join(Prefix(SET_SUBSCRIPTIONS, timestamp, nonce)
         \o Len16(Utf8(url))
         \o <<ToBytes(strong_etag.format, 1), Raw(strong_etag.etag)>>)

prepare_receive(url, topic, message_sha512, timestamp, nonce) ==
    IF Len(message_sha512) # Sha512Len
    THEN [ok |-> FALSE, error |-> "AssertionError"]
    ELSE Join(Prefix(RECEIVE, timestamp, nonce)
              \o Len16(Utf8(url)) \o Len16(topic) \o <<Raw(message_sha512)>>)

prepare_missed(recovery, topic, timestamp, nonce) ==
    Join(Prefix(MISSED, timestamp, nonce)
         \o Len16(Utf8(recovery)) \o Len16(topic))

prepare_stateful_confirm_configure(broadcaster_nonce, timestamp, nonce) ==
    Join(Prefix(WEBSOCKET_CONFIRM_CONFIGURE, timestamp, nonce)
         \o <<ToBytes(Len(broadcaster_nonce), 1), Raw(broadcaster_nonce)>>)

\* the _prepare_<op> of an operation, on the parameters p of its
\* authorize_<op> / is_<op>_allowed pair
Prepare(op, p, timestamp, nonce) ==
    CASE op = "subscribe_exact" ->
           prepare_subscribe_exact(p.url, p.recovery, p.exact, timestamp, nonce)
      [] op = "subscribe_glob" ->
           prepare_subscribe_glob(p.url, p.recovery, p.glob, timestamp, nonce)
      [] op = "notify" ->
           prepare_notify(p.topic, p.message_sha512, timestamp, nonce)
      [] op = "stateful_configure" ->
           prepare_stateful_configure(p.subscriber_nonce, p.enable_zstd,
                                      p.enable_training, p.initial_dict,
                                      timestamp, nonce)
      [] op = "check_subscriptions" ->
           prepare_check_subscriptions(p.url, timestamp, nonce)
      [] op = "set_subscriptions" ->
           prepare_set_subscriptions(p.url, p.strong_etag, timestamp, nonce)
      [] op = "receive" ->
           prepare_receive(p.url, p.topic, p.message_sha512, timestamp, nonce)
      [] op = "missed" ->
           prepare_missed(p.recovery, p.topic, timestamp, nonce)
      [] op = "stateful_confirm_configure" ->
           prepare_stateful_confirm_configure(p.broadcaster_nonce, timestamp, nonce)

-----------------------------------------------------------------------------
(* Tokens: hmac, base64, int(), sign and get_token                         *)

\* the digits of the run of '9's the model writes as one atom
HugeDigits == 400
\* a decimal number of this many digits '9' is beyond the largest float
FloatMaxDigits == 308 + 1


\* the number of base64 data characters of n bytes, and of padding
B64DataLen(n) == (n * 8 + 5) \div 6
B64PadLen(n) == (3 - (n % 3)) % 3

\* base64.b64encode(digest).decode("ascii")
b64encode(digest) ==
    <<B64Run(digest)>> \o [i \in 1..B64PadLen(CodeLen) |-> Ch("=")]

B64Alphabet == {"A", "a", "n", "m", "u", "t", "+", "/",
                "0", "1", "2", "3", "4", "5", "6", "7", "8", "9"}
Ascii == B64Alphabet \cup {"X", "-", "H", "M", "C", " ", ":", "=", "!", "_", "x", "."}

\* the data characters an atom holds for the decoder (others are skipped)
DataChars(a) ==
    CASE a.k = "b64" -> B64DataLen(CodeLen)
      [] a.k = "digits" -> a.v
      [] a.k = "run" -> IF a.v \in B64Alphabet THEN a.n ELSE 0
      [] a.k = "ch" -> IF a.v \in B64Alphabet THEN 1 ELSE 0

RECURSIVE B64Scan(_, _)
\* binascii.a2b_base64, not strict: st = [n, pads, data, done] after the
\* atoms read so far; n counts the data characters, n % 4 is quad_pos.  A
\* complete padding ends the scan; other characters are skipped.
B64Scan(s, st) ==
    IF s = << >> \/ st.done THEN st
    ELSE LET a == Head(s)
         IN IF IsCh(a, "=")
            THEN IF (st.n % 4) >= 2 /\ (st.n % 4) + st.pads + 1 >= 4
                 THEN [st EXCEPT !.done = TRUE]
                 ELSE B64Scan(Tail(s),
                              IF (st.n % 4) >= 2
                              THEN [st EXCEPT !.pads = st.pads + 1] ELSE st)
            ELSE IF DataChars(a) = 0 THEN B64Scan(Tail(s), st)
            ELSE B64Scan(Tail(s), [n |-> st.n + DataChars(a), pads |-> 0,
                                   data |-> Append(st.data, a), done |-> FALSE])

\* base64.b64decode(s): the bytes (their number, and the data characters
\* that spell them) or ValueError.  The bytes are the digest d exactly when
\* the data characters are the run of d.
b64decode(s) ==
    IF \E i \in 1..Len(s) : s[i].k = "ch" /\ s[i].v \notin Ascii
    THEN [ok |-> FALSE]
    ELSE LET st == B64Scan(s, [n |-> 0, pads |-> 0, data |-> << >>, done |-> FALSE])
         IN IF (st.n % 4) # 0 /\ ~st.done THEN [ok |-> FALSE]
            ELSE [ok |-> TRUE, len |-> st.n - ((st.n + 3) \div 4), data |-> st.data]


Digits == <<"0", "1", "2", "3", "4", "5", "6", "7", "8", "9">>
IsDigit(a) == a.k = "digits" \/ (a.k = "ch" /\ \E i \in 1..10 : Digits[i] = a.v)
DigitValue(c) == (CHOOSE i \in 1..10 : Digits[i] = c) - 1

RECURSIVE DecDigits(_)
DecDigits(n) == IF n < 10 THEN <<Ch(Digits[n + 1])>>
                ELSE DecDigits(n \div 10) \o <<Ch(Digits[(n % 10) + 1])>>
\* str(n) of an int
DecStr(n) == IF n < 0 THEN <<Ch("-")>> \o DecDigits(-n) ELSE DecDigits(n)

RECURSIVE StripLeft(_)
StripLeft(s) == IF s # << >> /\ IsCh(Head(s), " ") THEN StripLeft(Tail(s)) ELSE s
RECURSIVE StripRight(_)
StripRight(s) == IF s # << >> /\ IsCh(s[Len(s)], " ")
                 THEN StripRight(SubSeq(s, 1, Len(s) - 1)) ELSE s

RECURSIVE DigitsValue(_, _)
\* the value of digits (underscores between them skipped), acc so far;
\* a run of '9's makes it a number beyond the model's integers
DigitsValue(s, acc) ==
    IF s = << >> THEN acc
    ELSE LET a == Head(s)
         IN IF IsCh(a, "_") THEN DigitsValue(Tail(s), acc)
            ELSE IF a.k = "digits"
            THEN DigitsValue(Tail(s), [big |-> TRUE, value |-> 0,
                                       ndigits |-> acc.ndigits + a.v])
            ELSE DigitsValue(Tail(s),
                   [big |-> acc.big,
                    value |-> IF acc.big THEN 0 ELSE acc.value * 10 + DigitValue(a.v),
                    ndigits |-> acc.ndigits + 1])

\* int(s): surrounding spaces, a sign, digits with single underscores
\* between them; ValueError otherwise.
ParseInt(s) ==
    LET t == StripRight(StripLeft(s))
        signed == t # << >> /\ (IsCh(t[1], "-") \/ IsCh(t[1], "+"))
        body == IF signed THEN Tail(t) ELSE t
        wellFormed ==
            /\ body # << >>
            /\ \A i \in 1..Len(body) : IsDigit(body[i]) \/ IsCh(body[i], "_")
            /\ ~IsCh(body[1], "_")
            /\ ~IsCh(body[Len(body)], "_")
            /\ \A i \in 1..(Len(body) - 1) :
                  ~(IsCh(body[i], "_") /\ IsCh(body[i + 1], "_"))
        mag == DigitsValue(body, [big |-> FALSE, value |-> 0, ndigits |-> 0])
        neg == signed /\ IsCh(t[1], "-")
    IN IF ~wellFormed THEN [ok |-> FALSE]
       ELSE [ok |-> TRUE, big |-> mag.big, ndigits |-> mag.ndigits,
             value |-> IF neg THEN -mag.value ELSE mag.value]

\* str.find(":"): the index of the first ":" (from 1), 0 when there is none
Find(s) ==
    IF \E i \in 1..Len(s) : IsCh(s[i], ":")
    THEN CHOOSE i \in 1..Len(s) :
            IsCh(s[i], ":") /\ \A j \in 1..(i - 1) : ~IsCh(s[j], ":")
    ELSE 0

XHMAC == Str(<<"X", "-", "H", "M", "A", "C", " ">>)
StartsWith(s, prefix) == Len(s) >= Len(prefix) /\ SubSeq(s, 1, Len(prefix)) = prefix

TokenInfoUnauthorized == [type |-> "UNAUTHORIZED"]
TokenInfoForbidden == [type |-> "FORBIDDEN"]

\* get_token(authorization, now=now, token_lifetime=lifetime); now in ticks,
\* lifetime in seconds.  An exception that escapes is returned as its name.
get_token(authorization, now, lifetime) ==
    IF ~authorization.some THEN TokenInfoUnauthorized
    ELSE IF ~StartsWith(authorization.v, XHMAC) THEN TokenInfoForbidden
    ELSE LET timestamp_nonce_and_token ==
                 SubSeq(authorization.v, Len(XHMAC) + 1, Len(authorization.v))
             sep1 == Find(timestamp_nonce_and_token)
             timestamp == ParseInt(SubSeq(timestamp_nonce_and_token, 1, sep1 - 1))
             nonce_and_token ==
                 SubSeq(timestamp_nonce_and_token, sep1 + 1,
                        Len(timestamp_nonce_and_token))
             sep2 == Find(nonce_and_token)
             nonce == SubSeq(nonce_and_token, 1, sep2 - 1)
             code_str == SubSeq(nonce_and_token, sep2 + 1, Len(nonce_and_token))
             code == b64decode(code_str \o <<Ch("="), Ch("=")>>)
         IN IF sep1 = 0 THEN TokenInfoForbidden
            ELSE IF ~timestamp.ok THEN TokenInfoForbidden
            ELSE IF timestamp.big /\ timestamp.ndigits >= FloatMaxDigits
            THEN [type |-> "OverflowError"]   \* float - int, the int too large
            ELSE IF timestamp.big \/ Abs(now - Ticks(timestamp.value)) > Ticks(lifetime)
            THEN TokenInfoForbidden
            ELSE IF sep2 = 0 THEN TokenInfoForbidden
            ELSE IF ~code.ok THEN TokenInfoForbidden
            ELSE IF code.len # CodeLen THEN TokenInfoForbidden
            ELSE [type |-> "FOUND", timestamp |-> timestamp.value,
                  nonce |-> nonce, hmac |-> code]

\* sign(secret, to_sign, nonce, now): the text of the token
sign(secret, to_sign, nonce, now) ==
    Concat(<<XHMAC, DecStr(Trunc(now)), <<Ch(":")>>, nonce, <<Ch(":")>>,
             b64encode(Hmac(secret, to_sign))>>)

-----------------------------------------------------------------------------
(* authorize_<op> and is_<op>_allowed of ToBroadcasterHmacAuth and         *)
(* ToSubscriberHmacAuth                                                    *)

\* the shared secret of the signer and the verifier
Secret == "secret"

\* token_lifetime of the verifier, seconds
auth_token_lifetime == 2

\* IncomingHmacAuthNoneDBConfig.mark_code_used
none_mark_code_used == "ok"

\* authorize_<op>: t_prepare is the clock value the timestamp of the signed
\* bytes comes from, t_sign the one sign() formats.  They are the same
\* argument `now`, except in authorize_stateful_configure, which reads
\* time.time() once for each.
authorize(op, p, t_prepare, t_sign, nonce) ==
    IF op = "receive" /\ Len(p.message_sha512) # Sha512Len
    THEN [ok |-> FALSE, error |-> "AssertionError"]
    ELSE LET to_sign == Prepare(op, p, Trunc(t_prepare), nonce)
         IN IF ~to_sign.ok THEN [ok |-> FALSE, error |-> to_sign.error]
            ELSE [ok |-> TRUE, token |-> sign(Secret, to_sign.bytes, nonce, t_sign)]

\* a check_code that gives every code to the store
check_code_matches_any(secret, to_sign, code) == TRUE

\* check_code up to its call of db.mark_code_used
check_code_matches(secret, to_sign, code) ==
    code = DigestBytes(Hmac(secret, to_sign))

\* is_<op>_allowed up to the call of db.mark_code_used: the answer, the
\* exception that escapes, or "mark" with the code to give to the store
is_allowed_until_mark(op, p, now, authorization) ==
    IF op \in {"notify", "receive"} /\ Len(p.message_sha512) # Sha512Len
    THEN [outcome |-> "AssertionError"]
    ELSE LET token == get_token(authorization, now, auth_token_lifetime)
         IN CASE token.type = "UNAUTHORIZED" -> [outcome |-> "unauthorized"]
              [] token.type = "FORBIDDEN" -> [outcome |-> "forbidden"]
              [] token.type = "OverflowError" -> [outcome |-> "OverflowError"]
              [] token.type = "FOUND" ->
                   LET to_sign == Prepare(op, p, token.timestamp, token.nonce)
                   IN IF ~to_sign.ok THEN [outcome |-> to_sign.error]
                      ELSE IF ~check_code_matches(Secret, to_sign.bytes, token.hmac)
                      THEN [outcome |-> "forbidden"]
                      ELSE [outcome |-> "mark", code |-> token.hmac]

\* the rest of check_code: what db.mark_code_used returned
check_code_result(marked) ==
    CASE marked = "ok" -> "ok"
      [] marked = "conflict" -> "forbidden"
      [] OTHER -> marked

\* is_<op>_allowed of a verifier with the store that records nothing
is_allowed_none_db(op, p, now, authorization) ==
    LET v == is_allowed_until_mark(op, p, now, authorization)
    IN IF v.outcome = "mark" THEN check_code_result(none_mark_code_used)
       ELSE v.outcome

-----------------------------------------------------------------------------
(* Values of the parameters                                                *)

\* longest str / bytes field
MaxFieldLen == 1
FieldChars == {"a", "e'"}
FieldBytes == {97}

RECURSIVE SeqsUpTo(_, _)
SeqsUpTo(S, n) ==
    IF n = 0 THEN {<< >>}
    ELSE LET shorter == SeqsUpTo(S, n - 1)
         IN shorter \cup {Append(s, x) : s \in shorter, x \in S}

StrValues == {Str(s) : s \in SeqsUpTo(FieldChars, MaxFieldLen)}
ByteValues == SeqsUpTo(FieldBytes, MaxFieldLen)
OptStrValues == {NoneStr} \cup {Some(s) : s \in StrValues}
Sha(b) == [i \in 1..Sha512Len |-> b]
ShaValues == {Sha(0), Sha(97)}
\* what make_nonce may return (any string without ':' here)
AuthNonces == {Str(<<"n">>)}
Nonces == AuthNonces \cup {Str(<<"n", "m">>)}

\* the parameter tuples of an authorize_<op> / is_<op>_allowed pair, with
\* fields from the given sets
ParamsOver(op, strs, opts, bytes, shas, flags, nums) ==
    CASE op = "subscribe_exact" -> [url : strs, recovery : opts, exact : bytes]
      [] op = "subscribe_glob" -> [url : strs, recovery : opts, glob : strs]
      [] op = "notify" -> [topic : bytes, message_sha512 : shas]
      [] op = "stateful_configure" ->
           [subscriber_nonce : bytes, enable_zstd : flags,
            enable_training : flags, initial_dict : nums]
      [] op = "check_subscriptions" -> [url : strs]
      [] op = "set_subscriptions" ->
           [url : strs, strong_etag : [format : nums, etag : bytes]]
      [] op = "receive" -> [url : strs, topic : bytes, message_sha512 : shas]
      [] op = "missed" -> [recovery : strs, topic : bytes]
      [] op = "stateful_confirm_configure" -> [broadcaster_nonce : bytes]

Params(op) ==
    ParamsOver(op, StrValues, OptStrValues, ByteValues, ShaValues, BOOLEAN, {0, 1})

\* one tuple per operation, for the runs against the persistent store
AuthParams(op) ==
    ParamsOver(op, {Str(<<"a">>)}, {NoneStr}, {<<97>>}, {Sha(0)}, {FALSE}, {0})

-----------------------------------------------------------------------------
(* A signer, a verifier and the persistent store                           *)

\* the operations of these runs: one of the broadcaster's whose authorize_<op>
\* is given `now`, the one that reads the clock itself, one of the subscriber's
AuthOps == {"subscribe_exact", "stateful_configure", "receive"}

\* how far the signer's clock may be from the verifier's, in ticks
MaxSkew == Ticks(auth_token_lifetime) + 1
SignerNows == {t \in (clock - MaxSkew)..(clock + MaxSkew) : t >= 0}
\* tokens are issued in the first ticks of a run
MaxIssueClock == 1

\* Time passes when the event loop has nothing to run.
TickIdle ==
    /\ ~ReaperDue
    /\ Tick

\* authorize_<op>(p, now); authorize_stateful_configure reads the clock
\* twice, and the second reading may be a tick later.
Authorize ==
    /\ issued = NoToken
    /\ clock <= MaxIssueClock
    /\ \E op \in AuthOps : \E p \in AuthParams(op) : \E nonce \in AuthNonces :
       \E now \in SignerNows : \E later \in {0, 1} :
          /\ (op # "stateful_configure" => later = 0)
          /\ \E made \in {authorize(op, p, now, now + later, nonce)} :
                IF made.ok
                THEN /\ issued' = [op |-> op, p |-> p, t |-> now,
                                   token |-> made.token,
                                   code |-> DigestBytes(Hmac(Secret,
                                       Prepare(op, p, Trunc(now), nonce).bytes))]
                     /\ call' = [op |-> "authorize", result |-> "returned"]
                ELSE /\ issued' = issued
                     /\ call' = [op |-> "authorize", result |-> made.error]
    /\ UNCHANGED <<clock, table, conn, cursor, background_task, cleanup_wakeup,
                   reaper, td, hist, accepts>>
    /\ UNCHANGED <<tokenVars, wrapVars, wireVars, sqlVars>>

Authorizations == {NoneStr} \cup (IF issued = NoToken THEN {} ELSE {Some(issued.token)})

\* is_<op>_allowed(p, now=clock, authorization) of a verifier whose db_config
\* is the persistent store; nothing awaits in it, so it is one step.
IsAllowed ==
    /\ \E op \in AuthOps : \E p \in AuthParams(op) : \E authorization \in Authorizations :
       \E v \in {is_allowed_until_mark(op, p, clock, authorization)} :
          LET marks == v.outcome = "mark"
              result == IF marks THEN check_code_result(mark_result(v.code))
                        ELSE v.outcome
              own == /\ issued # NoToken
                     /\ authorization = Some(issued.token)
                     /\ op = issued.op
                     /\ p = issued.p
              again == /\ call.op = "is_allowed"
                       /\ call.own
                       /\ call.result = "ok"
          IN /\ IF marks THEN mark_code_used(v.code)
                ELSE UNCHANGED <<table, cleanup_wakeup, hist>>
             /\ call' = [op |-> "is_allowed", at |-> clock,
                         result |-> result, own |-> own,
                         entered |-> conn # None /\ cursor # None,
                         fresh |-> own /\ issued.code \notin DOMAIN table,
                         again |-> own /\ again]
             /\ accepts' = IF own /\ result = "ok" THEN accepts + 1 ELSE accepts
    /\ UNCHANGED <<clock, conn, cursor, background_task, reaper, td, issued>>
    /\ UNCHANGED <<tokenVars, wrapVars, wireVars, sqlVars>>

NextAuth ==
    \/ TickIdle
    \/ Setup
    \/ ReaperStart
    \/ ReaperWake
    \/ ReaperSleepDone
    \/ Authorize
    \/ IsAllowed

SpecAuth == InitStoreOnly /\ [][NextAuth]_vars

\* C2: an authorization string that is_<op>_allowed accepted is not accepted
\* again with the same parameters, whatever the clock and the reaper do
\* (the store's lifetime is at least the verifier's).
C2_NoReplay ==
    token_lifetime >= auth_token_lifetime => accepts <= 1

\* C6: the token of authorize_<op>(p, now=t) is accepted by
\* is_<op>_allowed(p, now=t+D) when |D| <= token_lifetime and the store has
\* not seen its digest, and the call after an accepting call is refused.
\* (Stated for the operations whose authorize_<op> is given `now`.)
C6_RoundTrip ==
    (call.op = "is_allowed" /\ call.own /\ call.entered
        /\ issued.op # "stateful_configure")
        => /\ (call.fresh /\ Abs(call.at - issued.t) <= Ticks(auth_token_lifetime)
                  => call.result = "ok")
           /\ (call.again => call.result = "forbidden")

\* the token just issued, as get_token reads it at the instant of issue
IssuedToken == get_token(Some(issued.token), issued.t, auth_token_lifetime)

\* C29: the timestamp in the text of every issued token is the timestamp
\* in the bytes that were signed: the digest of the bytes built from the
\* token's own timestamp and nonce and the call's parameters is the
\* token's code, for every authorize_<op>, whatever the clock did during
\* the call.
C29_SignedTimestamp ==
    issued # NoToken
        => /\ IssuedToken.type = "FOUND"
           /\ check_code_matches(Secret,
                   Prepare(issued.op, issued.p, IssuedToken.timestamp,
                           IssuedToken.nonce).bytes,
                   IssuedToken.hmac)

-----------------------------------------------------------------------------
(* get_token on authorization strings put together from parts              *)

Colon == <<Ch(":")>>
\* largest |timestamp| that is written out in a token
MaxTokenTs == 3
TokenPrefixes == {XHMAC, Str(<<"X", "-", "H", "M", "A", "C">>), << >>}
PlainTimestamps == {DecStr(n) : n \in (0 - MaxTokenTs)..MaxTokenTs}
HugeTimestamps == {<<DigitRun(HugeDigits)>>, <<Ch("-"), DigitRun(HugeDigits)>>}
OddTimestamps == {<< >>, Str(<<"x">>), Str(<<" ", "1">>), Str(<<"+", "1">>),
                  Str(<<"1", "_", "0">>), Str(<<"1", ".">>)}
TokenDigest == Hmac(Secret, <<1>>)
GoodBodies == {b64encode(TokenDigest), <<B64Run(TokenDigest)>>,
               b64encode(TokenDigest) \o Str(<<"!">>)}
BadBodies == {<< >>, Str(<<"A">>), Str(<<"A", "A", "=", "=">>),
              Str(<<"A">>) \o b64encode(TokenDigest)}
TokenNows == 0..Ticks(auth_token_lifetime + MaxTokenTs + 1)

TokenParts ==
    [pre : TokenPrefixes,
     ts : PlainTimestamps \cup HugeTimestamps \cup OddTimestamps,
     sep1 : {Colon, << >>}, nonce : {<< >>, Str(<<"n">>)}, sep2 : {Colon, << >>},
     body : GoodBodies \cup BadBodies]

\* the authorization header made of the parts
Authorization(parts) ==
    Some(Concat(<<parts.pre, parts.ts, parts.sep1, parts.nonce, parts.sep2,
                  parts.body>>))

InitToken ==
    /\ \/ input = [kind |-> "args", given |-> FALSE, authorization |-> NoneStr]
       \/ \E parts \in TokenParts :
             input = [kind |-> "args", given |-> TRUE, parts |-> parts,
                      authorization |-> Authorization(parts)]
    /\ clock \in TokenNows
    /\ call = NoCall
    /\ table = << >>
    /\ conn = None
    /\ cursor = None
    /\ background_task = None
    /\ cleanup_wakeup = FALSE
    /\ reaper = NoReaper
    /\ td = [pc |-> "idle", task |-> "none"]
    /\ hist = << >>
    /\ IdleAuth
    /\ IdleWrapper
    /\ IdleWire
    /\ IdleSql

\* get_token(authorization, now=clock, token_lifetime=auth_token_lifetime)
GetToken ==
    /\ call = NoCall
    /\ call' = [op |-> "get_token",
                result |-> get_token(input.authorization, clock, auth_token_lifetime)]
    /\ UNCHANGED <<clock, table, conn, cursor, background_task, cleanup_wakeup,
                   reaper, td, hist>>
    /\ UNCHANGED nonStoreVars

NextToken ==
    \/ GetToken

SpecToken == InitToken /\ [][NextToken]_vars

GotToken == call.op = "get_token"
\* the string has the form "X-HMAC <integer>:<nonce>:<64 bytes in base64>"
WellFormed ==
    /\ input.given
    /\ input.parts.pre = XHMAC
    /\ input.parts.ts \in PlainTimestamps \cup HugeTimestamps
    /\ input.parts.sep1 = Colon
    /\ input.parts.sep2 = Colon
    /\ input.parts.body \in GoodBodies
\* |now - timestamp| <= token_lifetime, for the timestamp written in the string
WithinLifetime ==
    /\ input.parts.ts \in PlainTimestamps
    /\ LET timestamp == CHOOSE n \in (0 - MaxTokenTs)..MaxTokenTs :
                            DecStr(n) = input.parts.ts
       IN Abs(clock - Ticks(timestamp)) <= Ticks(auth_token_lifetime)

\* C7: a well-formed token is FOUND iff |now - timestamp| <= token_lifetime,
\* and FORBIDDEN when it is farther away.
C7_TimeWindow ==
    (GotToken /\ WellFormed)
        => /\ (call.result.type = "FOUND" <=> WithinLifetime)
           /\ (~WithinLifetime => call.result.type = "FORBIDDEN")

\* C8: UNAUTHORIZED iff authorization is None; FORBIDDEN or FOUND for every
\* string; FOUND only for "X-HMAC <integer in the window>:<nonce>:<base64 of
\* 64 bytes>", and then with exactly these three parts.
C8_Classification ==
    GotToken
        => /\ (call.result.type = "UNAUTHORIZED" <=> ~input.given)
           /\ (input.given => call.result.type \in {"FORBIDDEN", "FOUND"})
           /\ (call.result.type = "FOUND"
                 => /\ StartsWith(input.authorization.v, XHMAC)
                    /\ input.parts.sep1 = Colon
                    /\ input.parts.sep2 = Colon
                    /\ ParseInt(input.parts.ts).ok
                    /\ Abs(clock - Ticks(call.result.timestamp))
                           <= Ticks(auth_token_lifetime)
                    /\ call.result.timestamp = ParseInt(input.parts.ts).value
                    /\ call.result.nonce = input.parts.nonce
                    /\ call.result.hmac = DigestBytes(TokenDigest))

-----------------------------------------------------------------------------
(* A signer and a verifier that records nothing                            *)
(* (IncomingHmacAuthNoneDBConfig): which calls a token is good for         *)

\* the tag that AuthMessageType gives an operation
TagOf(op) ==
    CASE op = "subscribe_exact" -> SUBSCRIBE_EXACT
      [] op = "subscribe_glob" -> SUBSCRIBE_GLOB
      [] op = "notify" -> NOTIFY
      [] op = "stateful_configure" -> WEBSOCKET_CONFIGURE
      [] op = "check_subscriptions" -> CHECK_SUBSCRIPTIONS
      [] op = "set_subscriptions" -> SET_SUBSCRIPTIONS
      [] op = "receive" -> RECEIVE
      [] op = "missed" -> MISSED
      [] op = "stateful_confirm_configure" -> WEBSOCKET_CONFIRM_CONFIGURE

\* the signed fields of a parameter tuple: an absent recovery is the empty one
SignedFields(op, p) ==
    IF op \in {"subscribe_exact", "subscribe_glob"}
    THEN [p EXCEPT !.recovery = IF p.recovery.some THEN p.recovery.v ELSE << >>]
    ELSE p

InitSign ==
    /\ \E op \in Ops : \E p \in Params(op) : \E nonce \in Nonces :
          input = [kind |-> "sign", op |-> op, p |-> p, nonce |-> nonce]
    /\ clock = TicksPerSec
    /\ call = NoCall
    /\ table = << >>
    /\ conn = None
    /\ cursor = None
    /\ background_task = None
    /\ cleanup_wakeup = FALSE
    /\ reaper = NoReaper
    /\ td = [pc |-> "idle", task |-> "none"]
    /\ hist = << >>
    /\ IdleAuth
    /\ IdleWrapper
    /\ IdleWire
    /\ IdleSql

\* authorize_<op>(p, now=clock)
AuthorizeSign ==
    /\ issued = NoToken
    /\ LET made == authorize(input.op, input.p, clock, clock, input.nonce)
           to_sign == Prepare(input.op, input.p, Trunc(clock), input.nonce)
       IN /\ made.ok
          /\ issued' = [op |-> input.op, p |-> input.p, t |-> clock,
                        token |-> made.token,
                        tag |-> to_sign.bytes[1]]
          /\ call' = [op |-> "authorize", result |-> "returned"]
    /\ UNCHANGED <<clock, table, conn, cursor, background_task, cleanup_wakeup,
                   reaper, td, hist, accepts>>
    /\ UNCHANGED <<tokenVars, wrapVars, wireVars, sqlVars>>

\* is_<op>_allowed(p, now=clock, authorization=token) for any operation and
\* any parameters, right after the token was made
VerifySign ==
    /\ issued # NoToken
    /\ call.op = "authorize"
    /\ \E op \in Ops : \E p \in Params(op) :
          LET mine == Prepare(issued.op, issued.p, Trunc(issued.t), input.nonce)
              theirs == Prepare(op, p, Trunc(issued.t), input.nonce)
          IN call' = [op |-> "is_allowed",
                      result |-> is_allowed_none_db(op, p, clock, Some(issued.token)),
                      same_op |-> op = issued.op,
                      same_p |-> op = issued.op /\ p = issued.p,
                      same_fields |-> /\ op = issued.op
                                      /\ SignedFields(op, p)
                                             = SignedFields(op, issued.p),
                      same_bytes |-> mine = theirs,
                      tag |-> theirs.bytes[1],
                      tag_of |-> TagOf(op)]
    /\ UNCHANGED <<clock, table, conn, cursor, background_task, cleanup_wakeup,
                   reaper, td, hist>>
    /\ UNCHANGED nonStoreVars

NextSign ==
    \/ AuthorizeSign
    \/ VerifySign

SpecSign == InitSign /\ [][NextSign]_vars

Verified == call.op = "is_allowed" /\ "same_op" \in DOMAIN call

\* C9: for one operation, timestamp and nonce, the to-sign bytes of two
\* parameter tuples are equal only if their signed fields are (an absent
\* recovery counting as the empty one), and a token is never accepted with
\* a tuple whose signed fields differ from the authorized ones.
C9_ParameterBinding ==
    (Verified /\ call.same_op)
        => /\ (call.same_bytes <=> call.same_fields)
           /\ (~call.same_fields => call.result # "ok")
C9_Witness ==
    /\ Verified /\ call.same_op /\ ~call.same_fields /\ call.result = "forbidden"
    /\ issued.op = "set_subscriptions"

\* C10: the tags are the nine distinct values 1..9, every to-sign buffer
\* starts with the tag of its operation, the buffers of two different
\* operations differ, and a token is never accepted by the is_<op>_allowed
\* of another operation.
C10_DomainSeparation ==
    /\ \A a, b \in Ops : a # b => TagOf(a) # TagOf(b)
    /\ {TagOf(a) : a \in Ops} = 1..9
    /\ (issued # NoToken /\ "tag" \in DOMAIN issued => issued.tag = TagOf(issued.op))
    /\ (Verified => call.tag = call.tag_of)
    /\ (Verified /\ ~call.same_op => ~call.same_bytes /\ call.result # "ok")
C10_Witness ==
    /\ Verified /\ ~call.same_op /\ call.result = "forbidden"
    /\ issued.op = "subscribe_glob" /\ call.tag_of = SUBSCRIBE_EXACT

-----------------------------------------------------------------------------
(* IncomingHmacAuthDBReentrantConfig over the persistent store             *)

\* calls of the wrapper's setup and teardown that are begun in a run
MaxCalls == 4

\* a wrapper that passes every setup on
setup_forwards_always(d) == d >= 0

\* "if self.depth == 0" of setup_hmac_auth_db
setup_forwards(d) == d = 0

\* what sqlite3.connect and the statements of the delegate's setup may do:
\* succeed, or raise (the except blocks close what was opened and re-raise,
\* before any field is assigned)
SetupFaults == {"none", "sqlite3.Error"}

\* a wrapper that counts a setup whose delegate raised
depth_after_setup_counted(d, raised) == d + 1

\* "self.depth += 1" of setup_hmac_auth_db comes after the await of the
\* delegate's setup: it is not reached when that raises
depth_after_setup(d, raised) == IF raised THEN d ELSE d + 1

\* The body of the wrapper's setup_hmac_auth_db, run by task t under the
\* lock, the delegate's setup meeting the given fault.  The delegate's
\* setup does not suspend, so the lock is free again at the end of the
\* step, whether the body returned or raised.
reentrant_setup_with(t, fault) ==
    LET forwards == setup_forwards(depth)
        asserted == forwards /\ setup_result = "AssertionError"
        raised == forwards /\ (asserted \/ fault # "none")
        after == depth_after_setup(depth, raised)
    IN /\ IF forwards /\ fault = "none" THEN setup_hmac_auth_db_Store
          ELSE UNCHANGED <<conn, cursor, background_task, reaper>>
       /\ depth' = after
       /\ forwarded' = IF ~forwards THEN forwarded
                       ELSE IF raised THEN "setup_raised" ELSE "setup"
       /\ lock' = None
       /\ wpc' = [wpc EXCEPT ![t] = "idle"]
       /\ call' = [op |-> "wrapper_setup", forwards |-> forwards,
                   before |-> depth, after |-> after, prev |-> forwarded,
                   waited |-> wpc[t] # "idle",
                   result |-> IF asserted THEN "AssertionError"
                              ELSE IF raised THEN fault ELSE "returned"]
       /\ UNCHANGED <<td, hist>>

\* the same with a delegate whose setup meets no fault
reentrant_setup(t) == reentrant_setup_with(t, "none")

\* The body of the wrapper's teardown_hmac_auth_db, run by task t under the
\* lock, up to the point where the delegate's teardown suspends (in
\* cancel_and_check), if it does.
reentrant_teardown(t) ==
    IF depth <= 0
    THEN /\ call' = [op |-> "wrapper_teardown", forwards |-> FALSE,
                     before |-> depth, after |-> depth, prev |-> forwarded,
                     waited |-> wpc[t] # "idle", result |-> "returned"]
         /\ lock' = None
         /\ wpc' = [wpc EXCEPT ![t] = "idle"]
         /\ UNCHANGED <<depth, forwarded, conn, cursor, background_task,
                        reaper, td, hist>>
    ELSE LET forwards == depth - 1 = 0
             suspends == forwards /\ background_task # None
         IN /\ depth' = depth - 1
            /\ IF forwards THEN teardown_hmac_auth_db_Store
               ELSE UNCHANGED <<conn, cursor, background_task, reaper, td, hist>>
            /\ forwarded' = IF forwards THEN "teardown" ELSE forwarded
            /\ lock' = IF suspends THEN t ELSE None
            /\ wpc' = [wpc EXCEPT ![t] = IF suspends THEN "in_teardown" ELSE "idle"]
            /\ call' = [op |-> "wrapper_teardown", forwards |-> forwards,
                        before |-> depth, after |-> depth - 1,
                        prev |-> forwarded, waited |-> wpc[t] # "idle",
                        result |-> IF suspends THEN "suspended" ELSE "returned"]

\* asyncio.Lock.acquire returns at once only when the lock is free and
\* nobody waits for it
LockIsFree == lock = None /\ waiters = << >>

\* a mark_code_used that takes the lock as setup and teardown do
reentrant_mark_ready_under_lock == LockIsFree

\* mark_code_used of the wrapper has no "async with self.lock": it runs
\* whatever the lock and the depth are
reentrant_mark_ready == TRUE

\* mark_code_used of the wrapper: "return await
\* self.delegate.mark_code_used(code=code)"
WrapperMarkCodeUsed ==
    /\ reentrant_mark_ready
    /\ \E code \in Codes :
          /\ mark_code_used(code)
          /\ call' = [op |-> "wrapper_mark_code_used", code |-> code,
                      result |-> mark_result(code),
                      depth |-> depth, locked |-> ~LockIsFree]
    /\ UNCHANGED <<clock, conn, cursor, background_task, reaper, td>>
    /\ UNCHANGED <<authVars, tokenVars, wrapVars, wireVars, sqlVars>>

\* a task calls the wrapper's setup_hmac_auth_db
WrapperSetup ==
    /\ calls < MaxCalls
    /\ calls' = calls + 1
    /\ \E t \in Tasks :
          /\ wpc[t] = "idle"
          /\ IF LockIsFree
             THEN reentrant_setup(t) /\ UNCHANGED waiters
             ELSE /\ waiters' = Append(waiters, t)
                  /\ wpc' = [wpc EXCEPT ![t] = "wait_setup"]
                  /\ call' = NoCall
                  /\ UNCHANGED <<depth, lock, forwarded, conn, cursor,
                                 background_task, reaper, td, hist>>
    /\ UNCHANGED <<clock, table, cleanup_wakeup>>
    /\ UNCHANGED <<authVars, tokenVars, wireVars, sqlVars>>

\* a task calls the wrapper's teardown_hmac_auth_db
WrapperTeardown ==
    /\ calls < MaxCalls
    /\ calls' = calls + 1
    /\ \E t \in Tasks :
          /\ wpc[t] = "idle"
          /\ IF LockIsFree
             THEN reentrant_teardown(t) /\ UNCHANGED waiters
             ELSE /\ waiters' = Append(waiters, t)
                  /\ wpc' = [wpc EXCEPT ![t] = "wait_teardown"]
                  /\ call' = NoCall
                  /\ UNCHANGED <<depth, lock, forwarded, conn, cursor,
                                 background_task, reaper, td, hist>>
    /\ UNCHANGED <<clock, table, cleanup_wakeup>>
    /\ UNCHANGED <<authVars, tokenVars, wireVars, sqlVars>>

\* the first waiter gets the released lock and runs its body
WrapperResume ==
    /\ lock = None
    /\ waiters # << >>
    /\ waiters' = Tail(waiters)
    /\ IF wpc[Head(waiters)] = "wait_setup"
       THEN reentrant_setup(Head(waiters))
       ELSE reentrant_teardown(Head(waiters))
    /\ UNCHANGED <<clock, table, cleanup_wakeup, calls>>
    /\ UNCHANGED <<authVars, tokenVars, wireVars, sqlVars>>

\* the delegate's teardown ends (cancel_and_check returned or raised); the
\* "async with" releases the lock either way
WrapperTeardownDone ==
    /\ \E t \in Tasks :
          /\ wpc[t] = "in_teardown"
          /\ wpc' = [wpc EXCEPT ![t] = "idle"]
    /\ td.pc = "awaiting"
    /\ td' = [pc |-> "idle", task |-> "none"]
    /\ lock' = None
    /\ \E result \in teardown_results :
       \E cursor_close \in CloseResults : \E conn_close \in CloseResults :
          call' = [op |-> "wrapper_teardown_done",
                   result |-> teardown_end([conn |-> td.conn, cursor |-> td.cursor],
                                           result, cursor_close, conn_close).result]
    /\ UNCHANGED <<clock, table, conn, cursor, background_task, cleanup_wakeup,
                   reaper, hist, depth, waiters, forwarded, calls>>
    /\ UNCHANGED <<authVars, tokenVars, wireVars, sqlVars>>

NextWrapper ==
    \/ WrapperSetup
    \/ WrapperTeardown
    \/ WrapperResume
    \/ WrapperTeardownDone
    \/ WrapperMarkCodeUsed
    \/ MarkCodeUsed
    \/ ReaperStart
    \/ ReaperWake

SpecWrapper == InitStoreOnly /\ [][NextWrapper]_vars

\* a task calls the wrapper's setup_hmac_auth_db; the delegate's setup may
\* raise
WrapperSetupFaulty ==
    /\ calls < MaxCalls
    /\ calls' = calls + 1
    /\ \E t \in Tasks :
          /\ wpc[t] = "idle"
          /\ IF LockIsFree
             THEN /\ \E fault \in SetupFaults : reentrant_setup_with(t, fault)
                  /\ UNCHANGED waiters
             ELSE /\ waiters' = Append(waiters, t)
                  /\ wpc' = [wpc EXCEPT ![t] = "wait_setup"]
                  /\ call' = NoCall
                  /\ UNCHANGED <<depth, lock, forwarded, conn, cursor,
                                 background_task, reaper, td, hist>>
    /\ UNCHANGED <<clock, table, cleanup_wakeup>>
    /\ UNCHANGED <<authVars, tokenVars, wireVars, sqlVars>>

\* the first waiter gets the released lock and runs its body; the
\* delegate's setup may raise
WrapperResumeFaulty ==
    /\ lock = None
    /\ waiters # << >>
    /\ waiters' = Tail(waiters)
    /\ IF wpc[Head(waiters)] = "wait_setup"
       THEN \E fault \in SetupFaults : reentrant_setup_with(Head(waiters), fault)
       ELSE reentrant_teardown(Head(waiters))
    /\ UNCHANGED <<clock, table, cleanup_wakeup, calls>>
    /\ UNCHANGED <<authVars, tokenVars, wireVars, sqlVars>>

NextWrapperFaulty ==
    \/ WrapperSetupFaulty
    \/ WrapperTeardown
    \/ WrapperResumeFaulty
    \/ WrapperTeardownDone
    \/ WrapperMarkCodeUsed
    \/ ReaperStart
    \/ ReaperWake

SpecWrapperFaulty == InitStoreOnly /\ [][NextWrapperFaulty]_vars

DelegateAnswer(code) ==
    IF conn = None \/ cursor = None THEN "AssertionError"
    ELSE IF code \in DOMAIN table THEN "conflict" ELSE "ok"

\* C26: the wrapper's mark_code_used can run in every state, whoever holds
\* the lock or waits for it and whatever the depth; it leaves the lock, the
\* waiters and the depth alone, and it returns what the delegate's
\* mark_code_used returns.
C26_LockScope ==
    /\ [](ENABLED WrapperMarkCodeUsed)
    /\ [][call'.op = "wrapper_mark_code_used" =>
             /\ UNCHANGED <<lock, waiters, depth, wpc>>
             /\ call'.result = DelegateAnswer(call'.code)]_vars

\* a call forwarded while a teardown holds the lock and a setup waits for it
C26_Witness ==
    /\ call.op = "wrapper_mark_code_used"
    /\ call.locked /\ lock # None /\ waiters # << >>
    /\ call.result = "AssertionError"

\* no call of the wrapper's setup or teardown is running or waiting
WrapperQuiet == lock = None /\ waiters = << >> /\ \A t \in Tasks : wpc[t] = "idle"

\* C30: the depth is never negative; a teardown at depth 0 returns without
\* calling the delegate and leaves the depth 0; a setup whose delegate
\* raised leaves the depth 0 and the lock free, and the next setup at depth
\* 0 calls the delegate again; when the delegate's teardown ends, returning
\* or raising, the depth is 0 and the lock is free; and while no setup or
\* teardown is running, the delegate is set up exactly when depth > 0.
C30_UnbalancedCalls ==
    /\ depth >= 0
    /\ (call.op = "wrapper_teardown" /\ call.before = 0
          => ~call.forwards /\ call.after = 0 /\ call.result = "returned"
             /\ depth = 0 /\ forwarded = call.prev)
    /\ (call.op = "wrapper_setup" /\ call.result # "returned"
          => call.before = 0 /\ call.after = 0 /\ depth = 0 /\ lock = None)
    /\ (call.op = "wrapper_setup" /\ call.before = 0 => call.forwards)
    /\ (call.op = "wrapper_teardown_done" => depth = 0 /\ lock = None)
    /\ (WrapperQuiet => ((conn # None /\ background_task # None) <=> depth > 0))

\* a setup that reached the delegate and returned, after a setup whose
\* delegate raised
C30_Witness ==
    /\ call.op = "wrapper_setup" /\ call.prev = "setup_raised"
    /\ call.forwards /\ call.result = "returned"
    /\ depth = 1 /\ WrapperQuiet

-----------------------------------------------------------------------------
(* The outcome of is_<op>_allowed for any authorization string             *)

\* longest nonce whose length fits the one length byte of the signed bytes
MaxNonceLen == 255
LongNonce == <<CharRun("n", MaxNonceLen + 1)>>
OutcomeNonces == {Str(<<"n">>), LongNonce}
OutcomeTimestamps == {0 - 1, 0, 1, 3}
OutcomeNows == 0..Ticks(1)
\* the verifier's db_config: the store that records nothing, or the
\* persistent store
OutcomeStores == {"none", "sqlite"}

\* "X-HMAC <timestamp>:<nonce>:<code>", the code being the digest of the
\* bytes the verifier signs when it can sign them
SignedToken(op, p, timestamp, nonce) ==
    LET to_sign == Prepare(op, p, timestamp, nonce)
        digest == IF to_sign.ok THEN Hmac(Secret, to_sign.bytes) ELSE TokenDigest
    IN Some(Concat(<<XHMAC, DecStr(timestamp), Colon, nonce, Colon, b64encode(digest)>>))

\* a well-formed token whose code is the digest of other bytes
ForgedToken(timestamp, nonce) ==
    Some(Concat(<<XHMAC, DecStr(timestamp), Colon, nonce, Colon, b64encode(TokenDigest)>>))

OutcomeAuthorizations(op, p) ==
    {NoneStr, Some(Str(<<"x">>))}
        \cup {SignedToken(op, p, ts, nonce) : ts \in OutcomeTimestamps, nonce \in OutcomeNonces}
        \cup {ForgedToken(ts, nonce) : ts \in OutcomeTimestamps, nonce \in OutcomeNonces}

InitOutcome ==
    /\ InitStore
    /\ IdleAuth
    /\ IdleWrapper
    /\ IdleWire
    /\ IdleSql
    /\ \E op \in Ops : \E p \in AuthParams(op) :
       \E authorization \in OutcomeAuthorizations(op, p) : \E db \in OutcomeStores :
          input = [kind |-> "is_allowed", op |-> op, p |-> p,
                   authorization |-> authorization, db |-> db]

\* Time passes before the call.
TickOutcome ==
    /\ call = NoCall
    /\ clock \in OutcomeNows
    /\ Tick

\* is_<op>_allowed(p, now=clock, authorization) of a verifier with the given
\* db_config; nothing awaits in it, so it is one step.
IsAllowedOutcome ==
    /\ call.op # "is_allowed"
    /\ \E v \in {is_allowed_until_mark(input.op, input.p, clock, input.authorization)} :
          LET marks == v.outcome = "mark"
              sqlite == input.db = "sqlite"
              marked == IF sqlite THEN mark_result(v.code) ELSE none_mark_code_used
          IN /\ IF marks /\ sqlite THEN mark_code_used(v.code)
                ELSE UNCHANGED <<table, cleanup_wakeup, hist>>
             /\ call' = [op |-> "is_allowed", at |-> clock,
                         result |-> IF marks THEN check_code_result(marked) ELSE v.outcome,
                         marks |-> marks,
                         marked |-> IF marks THEN marked ELSE "none"]
    /\ UNCHANGED <<clock, conn, cursor, background_task, reaper, td>>
    /\ UNCHANGED nonStoreVars

NextOutcome ==
    \/ TickOutcome
    \/ Setup
    \/ IsAllowedOutcome

SpecOutcome == InitOutcome /\ [][NextOutcome]_vars

Outcomes == {"ok", "unauthorized", "forbidden", "unavailable"}

\* C11: is_<op>_allowed answers with one of "ok", "unauthorized",
\* "forbidden", "unavailable" for every authorization string and every
\* behaviour of the store, never with an exception, and answers
\* "unavailable" when the store's mark_code_used fails.
C11_TaggedOutcomes ==
    call.op = "is_allowed"
        => /\ call.result \in Outcomes
           /\ (call.marks /\ call.marked \notin {"ok", "conflict"}
                  => call.result = "unavailable")

\* the call's token is well formed and inside the lifetime window
TokenFound == get_token(input.authorization, clock, auth_token_lifetime).type = "FOUND"

\* the token's code is the HMAC of the bytes the call's parameters give
DigestMatches ==
    /\ TokenFound
    /\ LET token == get_token(input.authorization, clock, auth_token_lifetime)
           to_sign == Prepare(input.op, input.p, token.timestamp, token.nonce)
       IN /\ to_sign.ok
          /\ token.hmac = DigestBytes(Hmac(Secret, to_sign.bytes))

\* C21: is_<op>_allowed gives the code to mark_code_used only when the HMAC
\* of the call's parameters equals the token's; an "unauthorized" answer, and
\* a "forbidden" one for a malformed token, a timestamp outside the window
\* or another digest, leaves the replay store as it was; the answer is "ok"
\* exactly when the digests match and the insertion says "ok", and
\* "forbidden" when the insertion says "conflict".
C21_VerificationOrder ==
    [][call'.op = "is_allowed" =>
          /\ call'.marks => DigestMatches
          /\ (\/ call'.result = "unauthorized"
              \/ call'.result = "forbidden" /\ ~DigestMatches)
                => /\ ~call'.marks
                   /\ table' = table
                   /\ cleanup_wakeup' = cleanup_wakeup
          /\ call'.result = "ok" <=> (DigestMatches /\ call'.marked = "ok")
          /\ call'.marked = "conflict" => call'.result = "forbidden"]_vars

\* a well-formed token inside the window with another digest, refused by a
\* verifier whose persistent store is set up
C21_Witness ==
    /\ call.op = "is_allowed" /\ call.result = "forbidden"
    /\ input.db = "sqlite" /\ conn # None
    /\ TokenFound /\ ~DigestMatches
    /\ table = << >>

-----------------------------------------------------------------------------
(* The bytes to sign, for any timestamp                                    *)

\* timestamps of the calls: before the epoch, the epoch, and numbers of one
\* and of two bytes
PrepareTimestamps == {0 - 2, 0 - 1, 0, 1, 258}

InitPrepare ==
    /\ InitStore
    /\ IdleAuth
    /\ IdleWrapper
    /\ IdleWire
    /\ IdleSql
    /\ \E op \in Ops : \E p \in Params(op) : \E nonce \in Nonces :
       \E timestamp \in PrepareTimestamps :
          input = [kind |-> "prepare", op |-> op, p |-> p, nonce |-> nonce,
                   timestamp |-> timestamp]

\* authorize_<op>(p, now=timestamp): the bytes it signs
AuthorizePrepare ==
    /\ call.op # "authorize"
    /\ \E made \in {authorize(input.op, input.p, Ticks(input.timestamp),
                              Ticks(input.timestamp), input.nonce)} :
          call' = [op |-> "authorize",
                   result |-> IF made.ok THEN "returned" ELSE made.error,
                   built |-> Prepare(input.op, input.p,
                                     Trunc(Ticks(input.timestamp)), input.nonce)]
    /\ UNCHANGED <<clock, table, conn, cursor, background_task, cleanup_wakeup,
                   reaper, td, hist>>
    /\ UNCHANGED nonStoreVars

\* is_<op>_allowed(p, now=timestamp, authorization) for a token that carries
\* the timestamp and the nonce: the bytes it signs to compare the digests
IsAllowedPrepare ==
    /\ call.op # "is_allowed"
    /\ \E authorization \in {SignedToken(input.op, input.p, input.timestamp,
                                         input.nonce)} :
       \E v \in {is_allowed_until_mark(input.op, input.p, Ticks(input.timestamp),
                                       authorization)} :
       \E token \in {get_token(authorization, Ticks(input.timestamp),
                               auth_token_lifetime)} :
          call' = [op |-> "is_allowed",
                   result |-> IF v.outcome = "mark"
                              THEN check_code_result(none_mark_code_used)
                              ELSE v.outcome,
                   built |-> IF token.type = "FOUND"
                             THEN Prepare(input.op, input.p, token.timestamp,
                                          token.nonce)
                             ELSE [ok |-> FALSE, error |-> token.type]]
    /\ UNCHANGED <<clock, table, conn, cursor, background_task, cleanup_wakeup,
                   reaper, td, hist>>
    /\ UNCHANGED nonStoreVars

NextPrepare ==
    \/ AuthorizePrepare
    \/ IsAllowedPrepare

SpecPrepare == InitPrepare /\ [][NextPrepare]_vars

\* n as 8 bytes, big-endian, two's complement
Signed8(n) ==
    [i \in 1..8 |-> IF n >= 0 THEN ByteAt(n, 8 - i) ELSE 255 - ByteAt((0 - n) - 1, 8 - i)]
\* a field after its length in 2 bytes, in 1 byte
U16Len(b) == <<Len(b) \div 256, Len(b) % 256>> \o b
U8Len(b) == <<Len(b)>> \o b
Flag(b) == IF b THEN <<1>> ELSE <<0>>

\* the fields of an operation, in the order of the table of encodings
TableFields(op, p) ==
    CASE op = "subscribe_exact" ->
           U16Len(Utf8(p.url)) \o U16Len(EncodedRecovery(p.recovery)) \o U16Len(p.exact)
      [] op = "subscribe_glob" ->
           U16Len(Utf8(p.url)) \o U16Len(EncodedRecovery(p.recovery))
               \o U16Len(Utf8(p.glob))
      [] op = "notify" -> U16Len(p.topic) \o p.message_sha512
      [] op = "stateful_configure" ->
           U8Len(p.subscriber_nonce) \o Flag(p.enable_zstd) \o Flag(p.enable_training)
               \o <<p.initial_dict \div 256, p.initial_dict % 256>>
      [] op = "check_subscriptions" -> U16Len(Utf8(p.url))
      [] op = "set_subscriptions" ->
           U16Len(Utf8(p.url)) \o <<p.strong_etag.format>> \o p.strong_etag.etag
      [] op = "receive" ->
           U16Len(Utf8(p.url)) \o U16Len(p.topic) \o p.message_sha512
      [] op = "missed" -> U16Len(Utf8(p.recovery)) \o U16Len(p.topic)
      [] op = "stateful_confirm_configure" -> U8Len(p.broadcaster_nonce)

Prepared == input.kind = "prepare" /\ call.op \in {"authorize", "is_allowed"}

\* C22: for signing and for verification, and for every timestamp, negative
\* ones included, the bytes to sign are built, and they are the operation's
\* tag in 1 byte, the timestamp in 8 bytes big-endian signed, the nonce's
\* utf-8 bytes after their length in 1 byte, and the operation's fields in
\* the order of the table.
C22_CanonicalPrefix ==
    Prepared =>
        /\ call.built.ok
        /\ call.built.bytes = <<TagOf(input.op)>> \o Signed8(input.timestamp)
                                \o U8Len(Utf8(input.nonce))
                                \o TableFields(input.op, input.p)

-----------------------------------------------------------------------------
(* ws/parser.py: the lookup table of a direction and the dispatch on it   *)

\* most (parser, type) registrations of a direction
MaxRegistrations == 3
\* largest type code of a registration
MaxTypeCode == 3
Parsers == {"p1", "p2"}
TypeCodes == (0 - 1)..MaxTypeCode

\* The (parser, type) pairs in the order the loops
\* "for parser in MESSAGE_PARSERS: for typ in parser.relevant_types()"
\* visit them: the pairs of one parser are next to each other.
Grouped(pairs) ==
    \A i \in 1..Len(pairs) : \A j \in i..Len(pairs) :
        pairs[i].parser = pairs[j].parser
            => \A k \in i..j : pairs[k].parser = pairs[i].parser
Registries ==
    {pairs \in UNION {[1..n -> [parser : Parsers, typ : TypeCodes]] :
                         n \in 0..MaxRegistrations} : Grouped(pairs)}

RECURSIVE LargestType(_, _)
\* the first loop of _make_s2b_parser_lookup: largest_type, from 0
LargestType(pairs, largest_type) ==
    IF pairs = << >> THEN largest_type
    ELSE LargestType(Tail(pairs), Max(Head(pairs).typ, largest_type))

\* "assert lookup[message_type] is None" passes (a mutation: it always does)
slot_is_free_always(lookup, message_type) == TRUE
\* "assert lookup[message_type] is None" passes
slot_is_free(lookup, message_type) == lookup[message_type + 1] = None

RECURSIVE FillLookup(_, _)
\* the second loop: the table, or the AssertionError of a duplicate
FillLookup(pairs, lookup) ==
    IF pairs = << >> THEN [ok |-> TRUE, lookup |-> lookup]
    ELSE LET message_type == Head(pairs).typ
         IN IF ~slot_is_free(lookup, message_type)
            THEN [ok |-> FALSE, error |-> "AssertionError"]
            ELSE FillLookup(Tail(pairs),
                            [lookup EXCEPT ![message_type + 1] = Head(pairs).parser])

\* _make_s2b_parser_lookup() / _make_b2s_parser_lookup() over the pairs of
\* the direction's parser list
make_parser_lookup(pairs) ==
    IF \E i \in 1..Len(pairs) : pairs[i].typ < 0
    THEN [ok |-> FALSE, error |-> "ValueError"]
    ELSE LET largest_type == LargestType(pairs, 0)
             total_types == Len(pairs)
         IN IF ~(largest_type < 2 * total_types)
            THEN [ok |-> FALSE, error |-> "AssertionError"]
            ELSE FillLookup(pairs, [i \in 1..(largest_type + 1) |-> None])

\* S2B_AnyMessageParser.parse / B2S_AnyMessageParser.parse(flags, type,
\* payload): the ValueError raised before anything is read from the payload,
\* or the parser the call is handed to
any_message_parse(lookup, type) ==
    IF type < 0
    THEN [outcome |-> "ValueError", message |-> "is negative", payload_read |-> FALSE]
    ELSE IF type >= Len(lookup)
    THEN [outcome |-> "ValueError", message |-> "is too large", payload_read |-> FALSE]
    ELSE IF lookup[type + 1] = None
    THEN [outcome |-> "ValueError", message |-> "is not supported", payload_read |-> FALSE]
    ELSE [outcome |-> "delegated", parser |-> lookup[type + 1], payload_read |-> TRUE]

InitDispatch ==
    /\ InitStore
    /\ IdleAuth
    /\ IdleWrapper
    /\ IdleWire
    /\ IdleSql
    /\ \E direction \in {"s2b", "b2s"} : \E pairs \in Registries :
          input = [kind |-> "registry", direction |-> direction, pairs |-> pairs]

\* "_s2b_parser_lookup = _make_s2b_parser_lookup()" when the module is
\* imported; an exception leaves the module not imported.
ImportParser ==
    /\ parser_lookup = NotImported
    /\ \E made \in {make_parser_lookup(input.pairs)} :
          /\ parser_lookup' = IF made.ok
                              THEN [state |-> "imported", lookup |-> made.lookup]
                              ELSE [state |-> "failed", error |-> made.error]
          /\ call' = [op |-> "import", result |-> IF made.ok THEN "returned" ELSE made.error]
    /\ UNCHANGED <<clock, table, conn, cursor, background_task, cleanup_wakeup,
                   reaper, td, hist>>
    /\ UNCHANGED <<authVars, tokenVars, wrapVars, frame, sqlVars>>

\* <direction>_AnyMessageParser.parse(flags, type, payload)
AnyMessageParse ==
    /\ parser_lookup.state = "imported"
    /\ \E type \in (0 - 1)..(MaxTypeCode + 1) :
          call' = [op |-> "parse", type |-> type,
                   result |-> any_message_parse(parser_lookup.lookup, type)]
    /\ UNCHANGED <<clock, table, conn, cursor, background_task, cleanup_wakeup,
                   reaper, td, hist>>
    /\ UNCHANGED nonStoreVars

NextDispatch ==
    \/ ImportParser
    \/ AnyMessageParse

SpecDispatch == InitDispatch /\ [][NextDispatch]_vars

\* the parsers registered for a type code
RegisteredFor(type) ==
    {input.pairs[i].parser : i \in {k \in 1..Len(input.pairs) : input.pairs[k].typ = type}}
HasDuplicate ==
    \E i, j \in 1..Len(input.pairs) : i # j /\ input.pairs[i].typ = input.pairs[j].typ
LargestRegistered ==
    IF input.pairs = << >> THEN 0
    ELSE CHOOSE t \in 0..MaxTypeCode :
            /\ \A i \in 1..Len(input.pairs) : input.pairs[i].typ <= t
            /\ t = 0 \/ \E i \in 1..Len(input.pairs) : input.pairs[i].typ = t

\* C12: the lookup table of a direction is built (when the module is
\* imported, never by parse) only from a parser list without duplicate or negative type codes whose largest code is
\* below twice the number of registrations, and has largest code + 1 slots;
\* parse raises the unsupported-type ValueError, reading nothing, for a code
\* that is negative, beyond the table or in an empty slot, and hands every
\* other code to the one parser registered for it.
C12_Dispatch ==
    /\ (HasDuplicate => parser_lookup.state # "imported")
    /\ parser_lookup.state = "imported" =>
          /\ \A i \in 1..Len(input.pairs) : input.pairs[i].typ >= 0
          /\ Len(parser_lookup.lookup) = LargestRegistered + 1
          /\ LargestRegistered < 2 * Len(input.pairs)
          /\ (call.op = "parse" =>
                IF call.type < 0 \/ call.type >= Len(parser_lookup.lookup)
                      \/ RegisteredFor(call.type) = {}
                THEN call.result.outcome = "ValueError" /\ ~call.result.payload_read
                ELSE /\ call.result.outcome = "delegated"
                     /\ RegisteredFor(call.type) = {call.result.parser})
\* a code inside the table whose slot is empty is refused, next to a code
\* that is handed on
C12_Witness ==
    /\ call.op = "parse"
    /\ call.result.outcome = "ValueError"
    /\ call.type >= 0 /\ call.type < Len(parser_lookup.lookup)
    /\ Len(input.pairs) = 2

-----------------------------------------------------------------------------
(* The websocket message codec: ws/serializer_helpers.py, the header       *)
(* framing of ws/parser_helpers.py and the per-message parsers and         *)
(* serializers of ws/messages                                              *)
(*                                                                         *)
(* An int that may need up to 8 bytes is its sequence of base-256 digits,  *)
(* most significant first and without leading zero digits (0 is << >>);    *)
(* the ints of at most 2 bytes are integers of the model.                  *)

\* name.encode("ascii") of the header names
AsciiOf ==
    ("x-subscriber-nonce" :> <<120, 45, 115, 117, 98, 115, 99, 114, 105, 98, 101, 114, 45, 110, 111, 110, 99, 101>>)
    @@ ("x-enable-zstd" :> <<120, 45, 101, 110, 97, 98, 108, 101, 45, 122, 115, 116, 100>>)
    @@ ("x-enable-training" :> <<120, 45, 101, 110, 97, 98, 108, 101, 45, 116, 114, 97, 105, 110, 105, 110, 103>>)
    @@ ("x-initial-dict" :> <<120, 45, 105, 110, 105, 116, 105, 97, 108, 45, 100, 105, 99, 116>>)
    @@ ("x-broadcaster-nonce" :> <<120, 45, 98, 114, 111, 97, 100, 99, 97, 115, 116, 101, 114, 45, 110, 111, 110, 99, 101>>)
    @@ ("x-identifier" :> <<120, 45, 105, 100, 101, 110, 116, 105, 102, 105, 101, 114>>)
    @@ ("x-part-id" :> <<120, 45, 112, 97, 114, 116, 45, 105, 100>>)
    @@ ("x-compression-level" :> <<120, 45, 99, 111, 109, 112, 114, 101, 115, 115, 105, 111, 110, 45, 108, 101, 118, 101, 108>>)
    @@ ("x-min-size" :> <<120, 45, 109, 105, 110, 45, 115, 105, 122, 101>>)
    @@ ("x-max-size" :> <<120, 45, 109, 97, 120, 45, 115, 105, 122, 101>>)
HeaderNames == DOMAIN AsciiOf
\* bytes.decode("ascii") of a header name; "?" is a name no parser knows
DecodeName(b) ==
    IF \E n \in HeaderNames : AsciiOf[n] = b
    THEN CHOOSE n \in HeaderNames : AsciiOf[n] = b
    ELSE "?"

\* PubSubWSMessageFlags.MINIMAL_HEADERS: the least significant bit
MINIMAL_HEADERS == 1

RECURSIVE StripZeros(_)
StripZeros(b) == IF b # << >> /\ Head(b) = 0 THEN StripZeros(Tail(b)) ELSE b
\* int.from_bytes(b, "big") of up to 8 bytes, and int.from_bytes(b) with
\* the byteorder omitted: "big" since Python 3.11, a TypeError (missing
\* required argument) before
from_bytes(b, byteorder, py311) ==
    IF byteorder = "big" \/ py311 THEN [ok |-> TRUE, value |-> StripZeros(b)]
    ELSE [ok |-> FALSE, error |-> "TypeError"]
\* int.from_bytes(b, "big") of at most 2 bytes, as an integer
SmallValue(b) ==
    IF b = << >> THEN 0
    ELSE IF Len(b) = 1 THEN b[1]
    ELSE b[1] * 256 + b[2]
\* int.from_bytes(b, "big", signed=True) of at most 2 bytes
SignedValue(b) ==
    IF SmallValue(b) >= (256 ^ Len(b)) \div 2 /\ b # << >>
    THEN SmallValue(b) - 256 ^ Len(b)
    ELSE SmallValue(b)
\* n.to_bytes(2, "big", signed=True)
ToBytesSigned2(n) ==
    IF n < 0 - 32768 \/ n > 32767 THEN [ok |-> FALSE, bytes |-> << >>]
    ELSE ToBytes((n + 65536) % 65536, 2)
\* int_to_minimal_unsigned(x): one zero byte for 0, else the digits
int_to_minimal_unsigned(x) == IF x = << >> THEN <<0>> ELSE x

\* serialize_prefix(out, type, minimal_headers=...): the flags that ignore
\* minimal_headers (a mutation)
serialize_prefix_expanded(type, minimal_headers) ==
    <<ToBytes(0, 2), ToBytes(type, 2)>>
\* serialize_prefix(out, type, minimal_headers=...): what it writes
serialize_prefix(type, minimal_headers) ==
    <<ToBytes(IF minimal_headers THEN MINIMAL_HEADERS ELSE 0, 2), ToBytes(type, 2)>>

RECURSIVE serialize_minimal_headers(_)
\* serialize_minimal_headers(out, values)
serialize_minimal_headers(values) ==
    IF values = << >> THEN << >>
    ELSE <<ToBytes(Len(Head(values)), 2), Raw(Head(values))>>
             \o serialize_minimal_headers(Tail(values))

RECURSIVE ExpandedPairs(_, _)
\* the loop of serialize_expanded_headers over zip(header_names, header_values)
ExpandedPairs(header_names, header_values) ==
    IF header_names = << >> \/ header_values = << >> THEN << >>
    ELSE <<ToBytes(Len(AsciiOf[Head(header_names)]), 2), Raw(AsciiOf[Head(header_names)]),
           ToBytes(Len(Head(header_values)), 2), Raw(Head(header_values))>>
             \o ExpandedPairs(Tail(header_names), Tail(header_values))

\* serialize_simple_headers(out, header_names, header_values, minimal=...)
\* (serialize_expanded_headers has asserted the equal lengths before)
serialize_simple_headers(header_names, header_values, minimal) ==
    IF minimal THEN serialize_minimal_headers(header_values)
    ELSE <<ToBytes(Len(header_names), 2)>> \o ExpandedPairs(header_names, header_values)

RECURSIVE SumLen(_)
SumLen(bs) == IF bs = << >> THEN 0 ELSE Len(Head(bs)) + SumLen(Tail(bs))

\* a size that counts the headers of the expanded mode as the minimal mode
\* does
total_size_as_minimal(header_names, header_values, payload, minimal_headers) ==
    2 + 2 + 2 * Len(header_values) + SumLen(header_values) + Len(payload)

\* total_size of serialize_simple_message: the size of the buffer it
\* allocates before it writes
total_size(header_names, header_values, payload, minimal_headers) ==
    2 + 2
    + (IF minimal_headers
       THEN 2 * Len(header_values) + SumLen(header_values)
       ELSE 2 + 4 * Len(header_values)
            + SumLen([i \in 1..Len(header_names) |-> AsciiOf[header_names[i]]])
            + SumLen(header_values))
    + Len(payload)

\* out.tell() of the PreallocatedBytesIO: the number of bytes written
tell(out) == Len(out.bytes)

\* serialize_simple_message(type=, header_names=, header_values=, payload=,
\* minimal_headers=): the bytes of the message or the exception
serialize_simple_message(type, header_names, header_values, payload, minimal_headers) ==
    IF Len(header_names) # Len(header_values)
    THEN [ok |-> FALSE, error |-> "AssertionError"]
    ELSE LET out == Join(serialize_prefix(type, minimal_headers)
                         \o serialize_simple_headers(header_names, header_values,
                                                     minimal_headers)
                         \o <<Raw(payload)>>)
         IN IF ~out.ok THEN out
            ELSE IF tell(out) # total_size(header_names, header_values, payload,
                                           minimal_headers)
            THEN [ok |-> FALSE, error |-> "AssertionError"]
            ELSE out


\* the bytes left in the payload after the first n
Drop(b, n) == SubSeq(b, n + 1, Len(b))
Truncated == [ok |-> FALSE, error |-> "ValueError"]

RECURSIVE parse_minimal_headers(_, _, _)
\* minimal-header parse: for each expected name, in order, a 2-byte length
\* and that many bytes, bound to the name
parse_minimal_headers(payload, names, headers) ==
    IF names = << >> THEN [ok |-> TRUE, headers |-> headers, rest |-> payload]
    ELSE IF Len(payload) < 2 THEN Truncated
    ELSE LET n == SmallValue(SubSeq(payload, 1, 2))
         IN IF Len(payload) < 2 + n THEN Truncated
            ELSE parse_minimal_headers(Drop(payload, 2 + n), Tail(names),
                     (Head(names) :> SubSeq(payload, 3, 2 + n)) @@ headers)

RECURSIVE parse_expanded_pairs(_, _, _)
\* expanded-header parse after the count: count times a name and a value,
\* both with a 2-byte length; every name is kept, a second value for a name
\* is refused
parse_expanded_pairs(payload, count, headers) ==
    IF count = 0 THEN [ok |-> TRUE, headers |-> headers, rest |-> payload]
    ELSE IF Len(payload) < 2 THEN Truncated
    ELSE LET name_len == SmallValue(SubSeq(payload, 1, 2))
             after_name == Drop(payload, 2 + name_len)
         IN IF Len(payload) < 2 + name_len \/ Len(after_name) < 2 THEN Truncated
            ELSE LET name == DecodeName(SubSeq(payload, 3, 2 + name_len))
                     n == SmallValue(SubSeq(after_name, 1, 2))
                 IN IF Len(after_name) < 2 + n THEN Truncated
                    ELSE IF name \in DOMAIN headers
                    THEN [ok |-> FALSE, error |-> "ValueError"]
                    ELSE parse_expanded_pairs(Drop(after_name, 2 + n), count - 1,
                             (name :> SubSeq(after_name, 3, 2 + n)) @@ headers)

\* parse_simple_headers(flags, payload, names): the mapping from header
\* names to values and what is left of the payload
parse_simple_headers(flags, payload, names) ==
    IF (flags % 2) = MINIMAL_HEADERS
    THEN parse_minimal_headers(payload, names, << >>)
    ELSE IF Len(payload) < 2 THEN Truncated
    ELSE parse_expanded_pairs(Drop(payload, 2), SmallValue(SubSeq(payload, 1, 2)), << >>)

\* headers[name] raises KeyError for one of the names
Missing(parsed, names) == \E i \in 1..Len(names) : names[i] \notin DOMAIN parsed.headers
\* headers.get(name, default)
Get(headers, name, default) == IF name \in DOMAIN headers THEN headers[name] ELSE default
\* the exception a parser raises before it looks at the values, or "none"
HeadersError(cls, type, parsed, names) ==
    IF type # cls.type THEN "AssertionError"
    ELSE IF ~parsed.ok THEN parsed.error
    ELSE IF Missing(parsed, names) THEN "KeyError"
    ELSE "none"
Raise(error) == [ok |-> FALSE, error |-> error]
Message(msg) == [ok |-> TRUE, msg |-> msg]

\* _headers of messages/configure.py
S2B_Configure_headers == <<"x-subscriber-nonce", "x-enable-zstd", "x-enable-training">>
NonceLen == 32
\* len(initial_dict_bytes) > 2 is refused
MaxInitialDictLen == 2

\* S2B_ConfigureParser.parse(flags, type, payload)
S2B_ConfigureParser_parse(cls, flags, type, payload) ==
    LET parsed == parse_simple_headers(flags, payload, S2B_Configure_headers)
        error == HeadersError(cls, type, parsed, S2B_Configure_headers)
        headers == parsed.headers
        initial_dict_bytes == Get(headers, "x-initial-dict", <<48>>)   \* b"0"
    IN IF error # "none" THEN Raise(error)
       ELSE IF Len(headers["x-subscriber-nonce"]) # NonceLen THEN Raise("ValueError")
       ELSE IF Len(initial_dict_bytes) > MaxInitialDictLen THEN Raise("ValueError")
       ELSE Message([type |-> type,
                     subscriber_nonce |-> headers["x-subscriber-nonce"],
                     enable_zstd |-> headers["x-enable-zstd"] = <<1>>,
                     enable_training |-> headers["x-enable-training"] = <<1>>,
                     initial_dict |-> SmallValue(initial_dict_bytes)])

\* serialize_s2b_configure(configure, minimal_headers=...)
serialize_s2b_configure(configure, minimal_headers) ==
    LET initial_dict == ToBytes(configure.initial_dict, 2)
    IN IF ~initial_dict.ok THEN Raise("OverflowError")
       ELSE serialize_simple_message(configure.type, S2B_Configure_headers,
                <<configure.subscriber_nonce,
                  IF configure.enable_zstd THEN <<1>> ELSE <<0>>,
                  IF configure.enable_training THEN <<1>> ELSE <<0>>,
                  initial_dict.bytes>>,
                << >>, minimal_headers)

\* _headers of messages/confirm_configure.py
B2S_ConfirmConfigure_headers == <<"x-broadcaster-nonce">>

\* B2S_ConfirmConfigureParser.parse(flags, type, payload)
B2S_ConfirmConfigureParser_parse(cls, flags, type, payload) ==
    LET parsed == parse_simple_headers(flags, payload, B2S_ConfirmConfigure_headers)
        error == HeadersError(cls, type, parsed, B2S_ConfirmConfigure_headers)
    IN IF error # "none" THEN Raise(error)
       ELSE IF Len(parsed.headers["x-broadcaster-nonce"]) # NonceLen THEN Raise("ValueError")
       ELSE Message([type |-> type,
                     broadcaster_nonce |-> parsed.headers["x-broadcaster-nonce"]])

\* serialize_b2s_confirm_configure(msg, minimal_headers=...)
serialize_b2s_confirm_configure(msg, minimal_headers) ==
    serialize_simple_message(msg.type, B2S_ConfirmConfigure_headers,
                             <<msg.broadcaster_nonce>>, << >>, minimal_headers)

\* _headers of messages/confirm_receive.py
S2B_ConfirmReceive_headers == <<"x-identifier">>
\* len(identifier) > 64 is refused
MaxIdentifierLen == 64

\* S2B_ConfirmRecieveParser.parse(flags, type, payload)
S2B_ConfirmRecieveParser_parse(cls, flags, type, payload) ==
    LET parsed == parse_simple_headers(flags, payload, S2B_ConfirmReceive_headers)
        error == HeadersError(cls, type, parsed, S2B_ConfirmReceive_headers)
    IN IF error # "none" THEN Raise(error)
       ELSE IF Len(parsed.headers["x-identifier"]) > MaxIdentifierLen THEN Raise("ValueError")
       ELSE Message([type |-> type, identifier |-> parsed.headers["x-identifier"]])

\* serialize_s2b_confirm_receive(msg, minimal_headers=...)
serialize_s2b_confirm_receive(msg, minimal_headers) ==
    serialize_simple_message(msg.type, S2B_ConfirmReceive_headers,
                             <<msg.identifier>>, << >>, minimal_headers)

\* _headers of messages/continue_notify.py and messages/continue_receive.py
Continue_headers == <<"x-identifier", "x-part-id">>
\* len(part_id_bytes) > 8 is refused
MaxPartIdLen == 8

\* B2S_ContinueNotifyParser.parse / S2B_ContinueReceiveParser.parse: the
\* same code but for the byteorder given to int.from_bytes
ContinueParser_parse(cls, flags, type, payload, byteorder, py311) ==
    LET parsed == parse_simple_headers(flags, payload, Continue_headers)
        error == HeadersError(cls, type, parsed, Continue_headers)
    IN IF error # "none" THEN Raise(error)
       ELSE IF Len(parsed.headers["x-identifier"]) > MaxIdentifierLen THEN Raise("ValueError")
       ELSE IF Len(parsed.headers["x-part-id"]) > MaxPartIdLen THEN Raise("ValueError")
       ELSE LET id == from_bytes(parsed.headers["x-part-id"], byteorder, py311)
            IN IF ~id.ok THEN Raise(id.error)
               ELSE Message([type |-> type, identifier |-> parsed.headers["x-identifier"],
                             part_id |-> id.value])

\* B2S_ContinueNotifyParser.parse: int.from_bytes(part_id_bytes, "big")
B2S_ContinueNotifyParser_parse(cls, flags, type, payload) ==
    ContinueParser_parse(cls, flags, type, payload, "big", TRUE)

\* S2B_ContinueReceiveParser.parse: int.from_bytes(part_id_bytes)
S2B_ContinueReceiveParser_parse(cls, flags, type, payload, py311) ==
    ContinueParser_parse(cls, flags, type, payload, "omitted", py311)

\* serialize_b2s_continue_notify / serialize_s2b_continue_receive
serialize_continue(msg, minimal_headers) ==
    serialize_simple_message(msg.type, Continue_headers,
        <<msg.identifier, int_to_minimal_unsigned(msg.part_id)>>, << >>, minimal_headers)

\* _headers of messages/enable_zstd_preset.py and messages/enable_zstd_custom.py
EnableZstd_headers == <<"x-identifier", "x-compression-level", "x-min-size", "x-max-size">>
\* the longest accepted x-identifier, x-compression-level, x-min-size and
\* x-max-size of the two parsers
MaxZstdIdentifierLen == 8
MaxCompressionLevelLen == 2
MaxMinSizeLen == 4
MaxMaxSizeLen == 8

\* B2S_EnableZstdPresetParser.parse / B2S_EnableZstdCustomParser.parse: the
\* same code but for the byteorder given to int.from_bytes and the
\* dictionary, which is the rest of the payload
EnableZstdParser_parse(cls, flags, type, payload, byteorder, py311, custom) ==
    LET parsed == parse_simple_headers(flags, payload, EnableZstd_headers)
        error == HeadersError(cls, type, parsed, EnableZstd_headers)
        headers == parsed.headers
        identifier == from_bytes(headers["x-identifier"], byteorder, py311)
        min_size == from_bytes(headers["x-min-size"], byteorder, py311)
        max_size == from_bytes(headers["x-max-size"], byteorder, py311)
        fields == [type |-> type, identifier |-> identifier.value,
                   compression_level |-> SignedValue(headers["x-compression-level"]),
                   min_size |-> min_size.value, max_size |-> max_size.value]
    IN IF error # "none" THEN Raise(error)
       ELSE IF Len(headers["x-identifier"]) > MaxZstdIdentifierLen THEN Raise("ValueError")
       ELSE IF ~identifier.ok THEN Raise(identifier.error)
       ELSE IF Len(headers["x-compression-level"]) > MaxCompressionLevelLen
       THEN Raise("ValueError")
       ELSE IF Len(headers["x-min-size"]) > MaxMinSizeLen THEN Raise("ValueError")
       ELSE IF Len(headers["x-max-size"]) > MaxMaxSizeLen THEN Raise("ValueError")
       ELSE IF custom THEN Message(fields @@ [dictionary |-> parsed.rest])
       ELSE Message(fields)

\* B2S_EnableZstdPresetParser.parse: int.from_bytes(..., "big")
B2S_EnableZstdPresetParser_parse(cls, flags, type, payload) ==
    EnableZstdParser_parse(cls, flags, type, payload, "big", TRUE, FALSE)

\* B2S_EnableZstdCustomParser.parse: int.from_bytes(...), then payload.read(-1)
B2S_EnableZstdCustomParser_parse(cls, flags, type, payload, py311) ==
    EnableZstdParser_parse(cls, flags, type, payload, "omitted", py311, TRUE)

\* serialize_b2s_enable_zstd_preset / serialize_b2s_enable_zstd_custom; the
\* payload is empty or msg.dictionary
serialize_enable_zstd(msg, payload, minimal_headers) ==
    LET compression_level == ToBytesSigned2(msg.compression_level)
    IN IF ~compression_level.ok THEN Raise("OverflowError")
       ELSE serialize_simple_message(msg.type, EnableZstd_headers,
                <<int_to_minimal_unsigned(msg.identifier), compression_level.bytes,
                  int_to_minimal_unsigned(msg.min_size),
                  int_to_minimal_unsigned(msg.max_size)>>,
                payload, minimal_headers)

-----------------------------------------------------------------------------
(* Messages that are serialized, sent and parsed                           *)

MessageClasses == {"S2B_Configure", "B2S_ConfirmConfigure", "S2B_ConfirmReceive",
                   "B2S_ContinueNotify", "S2B_ContinueReceive",
                   "B2S_EnableZstdPreset", "B2S_EnableZstdCustom"}

\* <class>Parser.parse(flags, type, payload), cls.type being the one
\* relevant type of the parser
ParserParse(class, cls, flags, type, payload, py311) ==
    CASE class = "S2B_Configure" -> S2B_ConfigureParser_parse(cls, flags, type, payload)
      [] class = "B2S_ConfirmConfigure" ->
           B2S_ConfirmConfigureParser_parse(cls, flags, type, payload)
      [] class = "S2B_ConfirmReceive" ->
           S2B_ConfirmRecieveParser_parse(cls, flags, type, payload)
      [] class = "B2S_ContinueNotify" ->
           B2S_ContinueNotifyParser_parse(cls, flags, type, payload)
      [] class = "S2B_ContinueReceive" ->
           S2B_ContinueReceiveParser_parse(cls, flags, type, payload, py311)
      [] class = "B2S_EnableZstdPreset" ->
           B2S_EnableZstdPresetParser_parse(cls, flags, type, payload)
      [] class = "B2S_EnableZstdCustom" ->
           B2S_EnableZstdCustomParser_parse(cls, flags, type, payload, py311)

\* serialize_<class>(msg, minimal_headers=...)
Serializer(class, msg, minimal_headers) ==
    CASE class = "S2B_Configure" -> serialize_s2b_configure(msg, minimal_headers)
      [] class = "B2S_ConfirmConfigure" ->
           serialize_b2s_confirm_configure(msg, minimal_headers)
      [] class = "S2B_ConfirmReceive" -> serialize_s2b_confirm_receive(msg, minimal_headers)
      [] class \in {"B2S_ContinueNotify", "S2B_ContinueReceive"} ->
           serialize_continue(msg, minimal_headers)
      [] class = "B2S_EnableZstdPreset" -> serialize_enable_zstd(msg, << >>, minimal_headers)
      [] class = "B2S_EnableZstdCustom" ->
           serialize_enable_zstd(msg, msg.dictionary, minimal_headers)

\* the flags, the type and the payload of a message that was received
ReadPrefix(bytes) ==
    [flags |-> SmallValue(SubSeq(bytes, 1, 2)), type |-> SmallValue(SubSeq(bytes, 3, 4)),
     payload |-> Drop(bytes, 4)]

\* b repeated n times
Bytes(n, b) == [i \in 1..n |-> b]
\* type codes: one byte, and two different bytes
TypeCodeValues == {1, 258}
Nonces32 == {Bytes(NonceLen, 1)}
Identifiers == {<< >>, <<7>>, Bytes(MaxIdentifierLen, 7)}
\* 0, 1, 256, 2^32 and 2^64 - 1
U64Values == {<< >>, <<1>>, <<1, 0>>, <<1, 0, 0, 0, 0>>, Bytes(8, 255)}
InitialDicts == {0, 1, 256, 65535}
CompressionLevels == {0 - 32768, 0 - 1, 0, 22}

\* the well-formed values of a message class
Messages(class) ==
    CASE class = "S2B_Configure" ->
           [type : TypeCodeValues, subscriber_nonce : Nonces32, enable_zstd : BOOLEAN,
            enable_training : BOOLEAN, initial_dict : InitialDicts]
      [] class = "B2S_ConfirmConfigure" ->
           [type : TypeCodeValues, broadcaster_nonce : Nonces32]
      [] class = "S2B_ConfirmReceive" -> [type : TypeCodeValues, identifier : Identifiers]
      [] class \in {"B2S_ContinueNotify", "S2B_ContinueReceive"} ->
           [type : TypeCodeValues, identifier : Identifiers, part_id : U64Values]
      [] class = "B2S_EnableZstdPreset" ->
           [type : TypeCodeValues, identifier : {<<1>>, Bytes(8, 255)},
            compression_level : CompressionLevels, min_size : U64Values,
            max_size : {<<1, 0>>, Bytes(8, 255)}]
      [] class = "B2S_EnableZstdCustom" ->
           [type : TypeCodeValues, identifier : {<<1>>, Bytes(8, 255)},
            compression_level : CompressionLevels, min_size : U64Values,
            max_size : {<<1, 0>>, Bytes(8, 255)}, dictionary : {<< >>, <<9, 9>>}]

\* the headers of messages a peer sends: for each class the header names
\* and, per name, the lengths of the values
SentHeaders(class) ==
    CASE class = "S2B_Configure" ->
           {[names |-> S2B_Configure_headers, lens |-> <<n, 1, 1>>] :
               n \in {NonceLen - 1, NonceLen}}
           \cup {[names |-> S2B_Configure_headers \o <<"x-initial-dict">>,
                  lens |-> <<NonceLen, 1, 1, n>>] : n \in 1..(MaxInitialDictLen + 1)}
      [] class = "B2S_ConfirmConfigure" ->
           {[names |-> B2S_ConfirmConfigure_headers, lens |-> <<n>>] :
               n \in {NonceLen - 1, NonceLen, NonceLen + 1}}
      [] class = "S2B_ConfirmReceive" ->
           {[names |-> S2B_ConfirmReceive_headers, lens |-> <<n>>] :
               n \in {MaxIdentifierLen, MaxIdentifierLen + 1}}
      [] class \in {"B2S_ContinueNotify", "S2B_ContinueReceive"} ->
           {[names |-> Continue_headers, lens |-> <<n, m>>] :
               n \in {MaxIdentifierLen, MaxIdentifierLen + 1},
               m \in {MaxPartIdLen, MaxPartIdLen + 1}}
      [] class \in {"B2S_EnableZstdPreset", "B2S_EnableZstdCustom"} ->
           {[names |-> EnableZstd_headers, lens |-> <<1, n, 1, 1>>] :
               n \in {MaxCompressionLevelLen, MaxCompressionLevelLen + 1}}

\* the values a peer sends in x-enable-zstd and x-enable-training: the two
\* flag bytes, another byte, no byte and two bytes
FlagValues == {<<0>>, <<1>>, <<2>>, << >>, <<1, 1>>}

InitCodec ==
    /\ InitStore
    /\ IdleAuth
    /\ IdleWrapper
    /\ IdleWire
    /\ IdleSql
    /\ \E class \in MessageClasses : \E minimal_headers \in BOOLEAN :
          \/ \E msg \in Messages(class) : \E py311 \in BOOLEAN :
                input = [kind |-> "message", class |-> class, type |-> msg.type,
                         msg |-> msg, minimal_headers |-> minimal_headers,
                         py311 |-> py311]
          \/ \E sent \in SentHeaders(class) : \E type \in TypeCodeValues :
                input = [kind |-> "headers", class |-> class, type |-> type,
                         names |-> sent.names,
                         values |-> [i \in 1..Len(sent.lens) |-> Bytes(sent.lens[i], 1)],
                         minimal_headers |-> minimal_headers, py311 |-> TRUE]
          \/ /\ class = "S2B_Configure"
             /\ \E type \in TypeCodeValues : \E zstd, training \in FlagValues :
                   input = [kind |-> "headers", class |-> class, type |-> type,
                            names |-> S2B_Configure_headers,
                            values |-> <<Bytes(NonceLen, 1), zstd, training>>,
                            minimal_headers |-> minimal_headers, py311 |-> TRUE]

\* serialize_<class>(msg, minimal_headers=...): the message for the websocket
Serialize ==
    /\ input.kind = "message"
    /\ call = NoCall
    /\ \E out \in {Serializer(input.class, input.msg, input.minimal_headers)} :
          /\ frame' = IF out.ok THEN [some |-> TRUE, v |-> out.bytes] ELSE frame
          /\ call' = [op |-> "serialize", result |-> IF out.ok THEN "returned" ELSE out.error]
    /\ UNCHANGED <<clock, table, conn, cursor, background_task, cleanup_wakeup,
                   reaper, td, hist>>
    /\ UNCHANGED <<authVars, tokenVars, wrapVars, parser_lookup, sqlVars>>

\* A peer sends a message with the given headers and no payload.
Send ==
    /\ input.kind = "headers"
    /\ call = NoCall
    /\ \E out \in {serialize_simple_message(input.type, input.names, input.values,
                                            << >>, input.minimal_headers)} :
          /\ frame' = [some |-> TRUE, v |-> out.bytes]
          /\ call' = [op |-> "send", result |-> "returned"]
    /\ UNCHANGED <<clock, table, conn, cursor, background_task, cleanup_wakeup,
                   reaper, td, hist>>
    /\ UNCHANGED <<authVars, tokenVars, wrapVars, parser_lookup, sqlVars>>

\* <class>Parser.parse(flags, type, payload) on the message received
Parse ==
    /\ frame.some
    /\ call.op # "parse"
    /\ \E read \in {ReadPrefix(frame.v)} :
          call' = [op |-> "parse",
                   result |-> ParserParse(input.class, [type |-> input.type], read.flags,
                                          read.type, read.payload, input.py311)]
    /\ UNCHANGED <<clock, table, conn, cursor, background_task, cleanup_wakeup,
                   reaper, td, hist>>
    /\ UNCHANGED nonStoreVars

NextCodec ==
    \/ Serialize
    \/ Send
    \/ Parse

SpecCodec == InitCodec /\ [][NextCodec]_vars

-----------------------------------------------------------------------------
(* serialize_simple_message on any headers and payload                     *)

MaxHeaders == 2
LongValueLen == 300
\* header values and payloads: empty, one byte, and longer than 255 bytes
SimpleValues == {<< >>, <<7>>, Bytes(LongValueLen, 5)}
SimpleNames == {"x-part-id", "x-compression-level"}

InitSimple ==
    /\ InitStore
    /\ IdleAuth
    /\ IdleWrapper
    /\ IdleWire
    /\ IdleSql
    /\ \E type \in TypeCodeValues : \E minimal_headers \in BOOLEAN :
       \E header_names \in SeqsUpTo(SimpleNames, MaxHeaders) :
       \E header_values \in SeqsUpTo(SimpleValues, MaxHeaders) :
       \E payload \in SimpleValues :
          input = [kind |-> "simple", type |-> type, names |-> header_names,
                   values |-> header_values, payload |-> payload,
                   minimal_headers |-> minimal_headers]

\* serialize_simple_message(type=..., header_names=..., header_values=...,
\* payload=..., minimal_headers=...)
SerializeSimple ==
    /\ input.kind = "simple"
    /\ call = NoCall
    /\ \E out \in {serialize_simple_message(input.type, input.names, input.values,
                                            input.payload, input.minimal_headers)} :
          /\ frame' = IF out.ok THEN [some |-> TRUE, v |-> out.bytes] ELSE frame
          /\ call' = [op |-> "serialize_simple_message", result |-> out,
                      total_size |-> total_size(input.names, input.values,
                                                input.payload, input.minimal_headers)]
    /\ UNCHANGED <<clock, table, conn, cursor, background_task, cleanup_wakeup,
                   reaper, td, hist>>
    /\ UNCHANGED <<authVars, tokenVars, wrapVars, parser_lookup, sqlVars>>

NextSimple == SerializeSimple

SpecSimple == InitSimple /\ [][NextSimple]_vars

RECURSIVE MinimalLayout(_)
\* [2-byte value-len][value] per value
MinimalLayout(values) ==
    IF values = << >> THEN << >>
    ELSE U16Len(Head(values)) \o MinimalLayout(Tail(values))
RECURSIVE ExpandedLayout(_, _)
\* [2-byte name-len][name][2-byte value-len][value] per header
ExpandedLayout(names, values) ==
    IF names = << >> THEN << >>
    ELSE U16Len(AsciiOf[Head(names)]) \o U16Len(Head(values))
            \o ExpandedLayout(Tail(names), Tail(values))
\* flags(2) || type(2) || headers || payload
FrameLayout(type, names, values, payload, minimal) ==
    <<0, IF minimal THEN 1 ELSE 0, type \div 256, type % 256>>
       \o (IF minimal THEN MinimalLayout(values)
           ELSE <<Len(names) \div 256, Len(names) % 256>> \o ExpandedLayout(names, values))
       \o payload

\* C27: for header names and values of equal length and any payload
\* serialize_simple_message returns (its final assertion holds), the size
\* it computed beforehand is the number of bytes written, and the bytes are
\* flags, type, the headers in the layout of the mode, and the payload.
C27_FrameLayout ==
    (/\ call.op = "serialize_simple_message"
     /\ Len(input.names) = Len(input.values))
        => /\ call.result.ok
           /\ call.total_size = Len(call.result.bytes)
           /\ call.result.bytes = FrameLayout(input.type, input.names, input.values,
                                              input.payload, input.minimal_headers)

\* two headers in expanded mode, a value and a payload longer than 255 bytes
C27_Witness ==
    /\ call.op = "serialize_simple_message"
    /\ call.result.ok
    /\ ~input.minimal_headers
    /\ Len(input.names) = MaxHeaders
    /\ Len(input.values[1]) = LongValueLen /\ input.values[2] = << >>
    /\ Len(input.payload) = LongValueLen

Serialized == call.op = "serialize"
Parsed == call.op = "parse"
\* the value of a class went through its serializer and its parser
RoundTrip(classes) == input.kind = "message" /\ input.class \in classes
\* the call returned, and the parser gave back the value that was serialized
RoundTripHolds ==
    /\ (Serialized => call.result = "returned")
    /\ (Parsed => call.result.ok /\ call.result.msg = input.msg)

\* C28: S2B_ConfigureParser.parse refuses a Configure message whose
\* x-enable-zstd or x-enable-training value is not the one byte 0x00 or
\* 0x01, and otherwise enable_zstd / enable_training is true exactly for
\* 0x01.
C28_ConfigureFlags ==
    (/\ Parsed
     /\ input.kind = "headers" /\ input.class = "S2B_Configure"
     /\ input.names = S2B_Configure_headers
     /\ Len(input.values[1]) = NonceLen)
        => IF input.values[2] \in {<<0>>, <<1>>} /\ input.values[3] \in {<<0>>, <<1>>}
           THEN /\ call.result.ok
                /\ call.result.msg.enable_zstd = (input.values[2] = <<1>>)
                /\ call.result.msg.enable_training = (input.values[3] = <<1>>)
           ELSE ~call.result.ok

\* C13: serialize_s2b_configure succeeds for every S2B_Configure with a
\* 32-byte nonce and initial_dict in 0..65535, in both header modes, and
\* S2B_ConfigureParser.parse of its output is the value in all four fields.
C13_ConfigureRoundTrip ==
    RoundTrip({"S2B_Configure"}) => RoundTripHolds

\* C14: a received S2B_Configure without an x-initial-dict header parses to
\* initial_dict = 0.
C14_DefaultInitialDict ==
    (/\ Parsed
     /\ input.kind = "headers" /\ input.class = "S2B_Configure"
     /\ input.names = S2B_Configure_headers
     /\ Len(input.values[1]) = NonceLen)
        => call.result.ok /\ call.result.msg.initial_dict = 0

\* C15: B2S_ConfirmConfigure, S2B_ConfirmReceive, B2S_ContinueNotify and
\* S2B_ContinueReceive values come back equal from parse(serialize(v,
\* minimal)) in both header modes, the part id written in the minimal
\* unsigned form.
C15_IdentifierRoundTrip ==
    RoundTrip({"B2S_ConfirmConfigure", "S2B_ConfirmReceive", "B2S_ContinueNotify",
               "S2B_ContinueReceive"}) => RoundTripHolds

\* C16: B2S_EnableZstdPreset and B2S_EnableZstdCustom values come back
\* equal from parse(serialize(v, minimal)) in both header modes.
C16_EnableZstdRoundTrip ==
    RoundTrip({"B2S_EnableZstdPreset", "B2S_EnableZstdCustom"}) => RoundTripHolds

\* C17: a serialized message starts with the two bytes 0x0001 when
\* minimal_headers is true and 0x0000 when it is false, then the type code
\* as two bytes, most significant first.
C17_FlagCorrectness ==
    frame.some =>
        /\ SubSeq(frame.v, 1, 2) = IF input.minimal_headers THEN <<0, 1>> ELSE <<0, 0>>
        /\ SubSeq(frame.v, 3, 4) = <<input.type \div 256, input.type % 256>>
\* a message in minimal mode whose type code needs both bytes
C17_Witness ==
    /\ Serialized /\ frame.some
    /\ input.minimal_headers /\ input.type > 256

\* the received message has a header wider than its parser may accept
TooWide ==
    \E i \in 1..Len(input.names) :
        LET name == input.names[i]
            n == Len(input.values[i])
        IN \/ name \in {"x-subscriber-nonce", "x-broadcaster-nonce"} /\ n # NonceLen
           \/ /\ name = "x-identifier" /\ n > MaxIdentifierLen
              /\ input.class \notin {"B2S_EnableZstdPreset", "B2S_EnableZstdCustom"}
           \/ name = "x-part-id" /\ n > MaxPartIdLen
           \/ name = "x-initial-dict" /\ n > MaxInitialDictLen
           \/ name = "x-compression-level" /\ n > MaxCompressionLevelLen

\* C18: in both header modes the parsers refuse, with the malformed-message
\* ValueError, a nonce that is not 32 bytes, an identifier of more than 64
\* bytes, an x-part-id of more than 8, an x-initial-dict of more than 2 and
\* an x-compression-level of more than 2 bytes.
C18_WidthBounds ==
    (Parsed /\ input.kind = "headers" /\ TooWide)
        => ~call.result.ok /\ call.result.error = "ValueError"
=============================================================================
